---- MODULE Spec2Model ----
(***************************************************************************)
(* A model of rust-minidb: the Clock-sweep buffer pool (rdbms/clocksweep), *)
(* the file-backed storage manager (rdbms/disk) and the B+tree access      *)
(* method (rdbms/btree) built on top of them.                              *)
(*                                                                         *)
(* The ClockSweepManager is one record, bufmgr, with the fields of the     *)
(* struct: disk, pool and page_table.  Every operation of the code is an   *)
(* operator from a manager value to a result and a new manager value, so   *)
(* that the B+tree operators can call the pool the way the code does; one  *)
(* action of a specification is one whole call.                            *)
(***************************************************************************)
EXTENDS Integers, Sequences, FiniteSets, TLC

VARIABLES
    bufmgr,     \* the ClockSweepManager: [disk, pool, page_table]
    last,       \* the most recent call: its name, argument and outcome
    written,    \* page id -> the bytes most recently given to the page through the pool
    btree,      \* the BTree handle: [meta_page_id], or NoTree before BTree::create
    inserted,   \* key -> value of every insert that returned Ok
    reads,      \* the number of B+tree calls made so far that stored no pair
    memory,     \* the MemoryManager driven beside the DiskManager, or NoMemory
    codec,      \* the tuples given to the codec and what it made of them, or NoCodec
    table,      \* the Table of the program: [meta_page_id, num_key_elems, unique_indices], or NoTable
    exec,       \* the executor that the started plan returned, or NoExec
    sweep,      \* the evict call in progress: [pc, consecutive_pinned, victim, bm], or NoSweep
    infinity,   \* the same tree over the InfinityBuffer of the tests: [bm, meta_page_id, res, items], or NoInfinity
    stored      \* the ids of the pages that calls on the pool have written to the heap file

vars == <<bufmgr, last, written, btree, inserted, reads, memory, codec, table, exec, sweep, infinity, stored>>

(***************************************************************************)
(* Bounds of the model.                                                    *)
(***************************************************************************)
MaxPoolSize == 2      \* pool sizes 1..MaxPoolSize in the pool specifications
MaxPages == 2         \* create_page is called while next_page_id < MaxPages
MaxUsage == 1         \* a hit is taken while usage_count < MaxUsage
MaxPins == 1          \* a buffer is handed out while its frame has < MaxPins holders

(***************************************************************************)
(* Page ids and pages.                                                     *)
(***************************************************************************)
INVALID_PAGE_ID == -1     \* PageId(u64::MAX): no allocated page has this id

NoBuffer == -1            \* Option<BufferId>::None

\* [0u8; PAGE_SIZE], the page of Buffer::default()
ZeroPage == [kind |-> "bytes", fill |-> 0]

\* a page filled with one byte value, as the tests write it ([42u8; PAGE_SIZE])
FilledPage(b) == [kind |-> "bytes", fill |-> b]

FillByte == 42

\* the bytes a holder writes over a page: all 42, or all zero again
Fills == {0, FillByte}

PAGE_SIZE == 4096

\* the bytes of a file past its last whole page: n < PAGE_SIZE of them
PartialPage(n) == [kind |-> "partial", len |-> n]

\* heap_file.metadata()?.len(): a file is the sequence of its pages, the last
\* of which may be partial
RECURSIVE heap_file_size(_)
heap_file_size(file) ==
    IF file = <<>> THEN 0
    ELSE (IF Head(file).kind = "partial" THEN Head(file).len ELSE PAGE_SIZE)
             + heap_file_size(Tail(file))

\* Frame::default(): usage_count 0 and an unshared Rc of Buffer::default().
\* pins is the number of clones of the Rc held outside the pool.
DefaultFrame ==
    [usage_count |-> 0, pins |-> 0,
     page_id |-> INVALID_PAGE_ID, page |-> ZeroPage, is_dirty |-> FALSE]

\* ClockSweepManager::new(DiskManager::new(file), pool_size) over a file of
\* file_pages pages.  peak observes the pool: it is the largest number of
\* frames that were pinned at one time since the current call began.
NewManager(pool_size, file) ==
    [disk |-> [heap_file |-> file, next_page_id |-> heap_file_size(file) \div PAGE_SIZE,
               history |-> <<>>, fail_in |-> 0],
     pool |-> [buffers |-> [b \in 0 .. pool_size - 1 |-> DefaultFrame],
               next_victim_id |-> 0],
     page_table |-> <<>>,
     peak |-> 0]

size(bm) == Cardinality(DOMAIN bm.pool.buffers)

BufferIds(bm) == DOMAIN bm.pool.buffers

pinned(bm, b) == bm.pool.buffers[b].pins > 0

\* the number of frames whose buffer has a holder outside the pool
NumPinned(bm) == Cardinality({b \in BufferIds(bm) : pinned(bm, b)})

\* let v = ..; F(v): the value of a call is bound once and used by name
Bind(v, F(_)) == F(v)

(***************************************************************************)
(* The storage manager (DiskManager).  heap_file[i + 1] is page i of the   *)
(* file.  history records the calls made on the storage, as TraceStorage   *)
(* does; fail_in = n > 0 makes the n-th fallible call from now fail with   *)
(* an I/O error, fail_in = 0 is a storage that does not fail by itself.    *)
(***************************************************************************)
Tick(disk) == IF disk.fail_in > 0 THEN disk.fail_in - 1 ELSE 0

Failing(disk) == disk.fail_in = 1

\* the allocate_page that does not advance its counter
allocate_page_repeating(bm) ==
    [page_id |-> bm.disk.next_page_id,
     bm |-> [bm EXCEPT !.disk.history = Append(@, <<"Alloc", bm.disk.next_page_id>>)]]

allocate_page(bm) ==
    [page_id |-> bm.disk.next_page_id,
     bm |-> [bm EXCEPT !.disk.next_page_id = @ + 1,
                       !.disk.history = Append(@, <<"Alloc", bm.disk.next_page_id>>)]]

\* seek to PAGE_SIZE * page_id, then read_exact: a short read is an error
read_page_data(bm, page_id) ==
    LET disk == bm.disk
        ok == /\ ~Failing(disk)
              /\ page_id >= 0 /\ page_id < Len(disk.heap_file)
              /\ disk.heap_file[page_id + 1].kind # "partial"
    IN  [ok |-> ok,
         data |-> IF ok THEN disk.heap_file[page_id + 1] ELSE ZeroPage,
         bm |-> [bm EXCEPT !.disk.fail_in = Tick(disk),
                           !.disk.history = Append(@, <<"Read", page_id>>)]]

\* the write that does not seek: the bytes go to the start of the file
write_page_data_unseeked(bm, page_id, data) ==
    [ok |-> ~Failing(bm.disk),
     bm |-> [bm EXCEPT !.disk.fail_in = Tick(bm.disk),
                       !.disk.heap_file =
                           IF Failing(bm.disk) THEN @
                           ELSE IF @ = <<>> THEN <<data>> ELSE [@ EXCEPT ![1] = data],
                       !.disk.history = Append(@, <<"Write", page_id>>)]]

\* seek to PAGE_SIZE * page_id, then write_all: a write past the end of the
\* file leaves a hole of zero bytes before it, which also pads a partial page
write_page_data(bm, page_id, data) ==
    LET disk == bm.disk
        ok == ~Failing(disk)
        len == IF page_id + 1 > Len(disk.heap_file) THEN page_id + 1
               ELSE Len(disk.heap_file)
        file == [i \in 1 .. len |->
                    IF i = page_id + 1 THEN data
                    ELSE IF i > Len(disk.heap_file) THEN ZeroPage
                    ELSE IF disk.heap_file[i].kind = "partial" /\ i < len
                    THEN [kind |-> "padded", len |-> disk.heap_file[i].len]
                    ELSE disk.heap_file[i]]
    IN  [ok |-> ok,
         bm |-> [bm EXCEPT !.disk.fail_in = Tick(disk),
                           !.disk.heap_file = IF ok THEN file ELSE @,
                           !.disk.history = Append(@, <<"Write", page_id>>)]]

sync(bm) ==
    [ok |-> ~Failing(bm.disk),
     bm |-> [bm EXCEPT !.disk.fail_in = Tick(bm.disk),
                       !.disk.history = Append(@, <<"Sync">>)]]

(***************************************************************************)
(* BufferPool::evict, the Clock-sweep.                                     *)
(***************************************************************************)
\* the cursor that does not advance
increment_id_stuck(bm, buffer_id) == buffer_id

increment_id(bm, buffer_id) == (buffer_id + 1) % size(bm)

\* the sweep that does not look at the holders of a buffer
is_unique_unchecked(bm, buffer_id) == TRUE

\* Rc::get_mut(&mut frame.buffer).is_some(): the pool holds the only handle
is_unique(bm, buffer_id) == bm.pool.buffers[buffer_id].pins = 0

RECURSIVE evict_loop(_, _)
evict_loop(bm, consecutive_pinned) ==
    LET next_victim_id == bm.pool.next_victim_id
        frame == bm.pool.buffers[next_victim_id]
        advanced == [bm EXCEPT !.pool.next_victim_id = increment_id(bm, next_victim_id)]
    IN  IF frame.usage_count = 0
        THEN [victim |-> next_victim_id, bm |-> bm]
        ELSE IF is_unique(bm, next_victim_id)
        THEN evict_loop(
                 [advanced EXCEPT !.pool.buffers[next_victim_id].usage_count = @ - 1], 0)
        ELSE IF consecutive_pinned + 1 >= size(bm)
        THEN [victim |-> NoBuffer, bm |-> bm]
        ELSE evict_loop(advanced, consecutive_pinned + 1)

\* the sweep that leaves the cursor after the victim
evict_past(bm) ==
    Bind(evict_loop(bm, 0), LAMBDA r :
        IF r.victim = NoBuffer THEN r
        ELSE [r EXCEPT !.bm.pool.next_victim_id = increment_id(bm, @)])

evict(bm) == evict_loop(bm, 0)

\* one turn of the loop of evict that takes nothing from usage_count
evict_step_undecremented(bm, consecutive_pinned) ==
    Bind(bm.pool.next_victim_id, LAMBDA next_victim_id :
    Bind([bm EXCEPT !.pool.next_victim_id = increment_id(bm, next_victim_id)],
         LAMBDA advanced :
    IF bm.pool.buffers[next_victim_id].usage_count = 0
    THEN [pc |-> "returned", consecutive_pinned |-> consecutive_pinned,
          victim |-> next_victim_id, bm |-> bm]
    ELSE IF is_unique(bm, next_victim_id)
    THEN [pc |-> "loop", consecutive_pinned |-> 0, victim |-> NoBuffer, bm |-> advanced]
    ELSE IF consecutive_pinned + 1 >= size(bm)
    THEN [pc |-> "returned", consecutive_pinned |-> consecutive_pinned + 1,
          victim |-> NoBuffer, bm |-> bm]
    ELSE [pc |-> "loop", consecutive_pinned |-> consecutive_pinned + 1,
          victim |-> NoBuffer, bm |-> advanced]))

\* BufferPool::evict, one turn of its loop: the call goes on (pc = "loop") or
\* has returned Some(victim) or None (victim = NoBuffer)
evict_step(bm, consecutive_pinned) ==
    Bind(bm.pool.next_victim_id, LAMBDA next_victim_id :
    Bind([bm EXCEPT !.pool.next_victim_id = increment_id(bm, next_victim_id)],
         LAMBDA advanced :
    IF bm.pool.buffers[next_victim_id].usage_count = 0
    THEN [pc |-> "returned", consecutive_pinned |-> consecutive_pinned,
          victim |-> next_victim_id, bm |-> bm]
    ELSE IF is_unique(bm, next_victim_id)
    THEN [pc |-> "loop", consecutive_pinned |-> 0, victim |-> NoBuffer,
          bm |-> [advanced EXCEPT !.pool.buffers[next_victim_id].usage_count = @ - 1]]
    ELSE IF consecutive_pinned + 1 >= size(bm)
    THEN [pc |-> "returned", consecutive_pinned |-> consecutive_pinned + 1,
          victim |-> NoBuffer, bm |-> bm]
    ELSE [pc |-> "loop", consecutive_pinned |-> consecutive_pinned + 1,
          victim |-> NoBuffer, bm |-> advanced]))

(***************************************************************************)
(* The page table, a HashMap<PageId, BufferId>.                            *)
(***************************************************************************)
table_remove(page_table, page_id) ==
    [p \in DOMAIN page_table \ {page_id} |-> page_table[p]]

table_insert(page_table, page_id, buffer_id) ==
    [p \in DOMAIN page_table \cup {page_id} |->
        IF p = page_id THEN buffer_id ELSE page_table[p]]

(***************************************************************************)
(* ClockSweepManager::fetch_page.  The result names the outcome (res), the *)
(* frame whose buffer is returned (buf) and the manager after the call.    *)
(***************************************************************************)
PoolResult(res, buf, bm) ==
    [res |-> res, buf |-> buf,
     bm |-> [bm EXCEPT !.peak = IF NumPinned(bm) > @ THEN NumPinned(bm) ELSE @]]

\* the eviction that drops a dirty page
write_back_never(bm, frame) == [ok |-> TRUE, bm |-> bm]

\* the eviction that writes its victim whether dirty or not
write_back_always(bm, frame) == write_page_data(bm, frame.page_id, frame.page)

\* if buffer.is_dirty.get() { self.disk.write_page_data(evict_page_id, ..)? }
write_back(bm, frame) ==
    IF frame.is_dirty
    THEN write_page_data(bm, frame.page_id, frame.page)
    ELSE [ok |-> TRUE, bm |-> bm]

fetch_page_miss(bm, page_id) ==
    Bind(evict(bm), LAMBDA ev :
    IF ev.victim = NoBuffer THEN PoolResult("NoFreeBuffer", NoBuffer, ev.bm)
    ELSE
    Bind(ev.bm.pool.buffers[ev.victim], LAMBDA frame :
    Bind(write_back(ev.bm, frame), LAMBDA w :
    IF ~w.ok THEN PoolResult("Io", NoBuffer, w.bm)
    ELSE
    Bind(read_page_data([w.bm EXCEPT !.pool.buffers[ev.victim].page_id = page_id,
                                     !.pool.buffers[ev.victim].is_dirty = FALSE],
                        page_id), LAMBDA r :
    IF ~r.ok THEN PoolResult("Io", NoBuffer, r.bm)
    ELSE PoolResult("Ok", ev.victim,
             [r.bm EXCEPT
                !.pool.buffers[ev.victim].page = r.data,
                !.pool.buffers[ev.victim].usage_count = 1,
                !.pool.buffers[ev.victim].pins = @ + 1,
                !.page_table =
                    table_insert(table_remove(@, frame.page_id), page_id, ev.victim)])))))

(***************************************************************************)
(* InfinityBuffer (rdbms/btree.rs, tests): next_page_id and data, a Vec of *)
(* buffers that only grows.  It is held in a record of the same fields as  *)
(* the ClockSweepManager so that a B+tree runs over either: next_page_id   *)
(* is disk.next_page_id, data[i] is pool.buffers[i], and page_table maps   *)
(* every page id to itself.  The field infinity tells the two apart, as    *)
(* the vtable of &mut dyn BufferPoolManager does.                          *)
(***************************************************************************)
NewInfinity ==
    [disk |-> [heap_file |-> <<>>, next_page_id |-> 0, history |-> <<>>, fail_in |-> 0],
     pool |-> [buffers |-> <<>>, next_victim_id |-> 0],
     page_table |-> <<>>,
     peak |-> 0,
     infinity |-> TRUE]

is_infinity(bm) == "infinity" \in DOMAIN bm

infinity_create_page(bm) ==
    Bind(bm.disk.next_page_id, LAMBDA page_id :
    PoolResult("Ok", page_id,
        [bm EXCEPT
           !.disk.next_page_id = @ + 1,
           !.pool.buffers =
               [b \in 0 .. page_id |->
                   IF b = page_id
                   THEN [usage_count |-> 0, pins |-> 1, page_id |-> page_id,
                         page |-> ZeroPage, is_dirty |-> TRUE]
                   ELSE @[b]],
           !.page_table = table_insert(@, page_id, page_id)]))

\* &self.data[page_id.0 as usize]: an id that was not created panics
infinity_fetch_page(bm, page_id) ==
    IF page_id \in DOMAIN bm.pool.buffers
    THEN PoolResult("Ok", page_id, [bm EXCEPT !.pool.buffers[page_id].pins = @ + 1])
    ELSE PoolResult("Panic", NoBuffer, bm)

\* the fetch_page that does not consult the page table
fetch_page_always_miss(bm, page_id) == fetch_page_miss(bm, page_id)

fetch_page(bm, page_id) ==
    IF is_infinity(bm) THEN infinity_fetch_page(bm, page_id)
    ELSE IF page_id \in DOMAIN bm.page_table
    THEN PoolResult("Ok", bm.page_table[page_id],
             [bm EXCEPT !.pool.buffers[bm.page_table[page_id]].usage_count = @ + 1,
                        !.pool.buffers[bm.page_table[page_id]].pins = @ + 1])
    ELSE fetch_page_miss(bm, page_id)

(***************************************************************************)
(* ClockSweepManager::create_page.                                         *)
(***************************************************************************)
\* the create_page that allocates its page before it looks for a frame
create_page_allocating_first(bm) ==
    Bind(allocate_page(bm), LAMBDA a :
    Bind(evict(a.bm), LAMBDA ev :
    IF ev.victim = NoBuffer THEN PoolResult("NoFreeBuffer", NoBuffer, ev.bm)
    ELSE
    Bind(ev.bm.pool.buffers[ev.victim], LAMBDA frame :
    Bind(write_back(ev.bm, frame), LAMBDA w :
    IF ~w.ok THEN PoolResult("Io", NoBuffer, w.bm)
    ELSE
    PoolResult("Ok", ev.victim,
        [w.bm EXCEPT
           !.pool.buffers[ev.victim] =
               [usage_count |-> 1, pins |-> frame.pins + 1, page_id |-> a.page_id,
                page |-> ZeroPage, is_dirty |-> TRUE],
           !.page_table =
               table_insert(table_remove(@, frame.page_id), a.page_id, ev.victim)])))))

\* the create_page that leaves the evicted page in the page table
create_page_keeping_entry(bm) ==
    Bind(evict(bm), LAMBDA ev :
    IF ev.victim = NoBuffer THEN PoolResult("NoFreeBuffer", NoBuffer, ev.bm)
    ELSE
    Bind(ev.bm.pool.buffers[ev.victim], LAMBDA frame :
    Bind(write_back(ev.bm, frame), LAMBDA w :
    IF ~w.ok THEN PoolResult("Io", NoBuffer, w.bm)
    ELSE
    Bind(allocate_page(w.bm), LAMBDA a :
    PoolResult("Ok", ev.victim,
        [a.bm EXCEPT
           !.pool.buffers[ev.victim] =
               [usage_count |-> 1, pins |-> frame.pins + 1, page_id |-> a.page_id,
                page |-> ZeroPage, is_dirty |-> TRUE],
           !.page_table = table_insert(@, a.page_id, ev.victim)])))))

\* the create_page that hands out a buffer that is not dirty
create_page_clean(bm) ==
    Bind(evict(bm), LAMBDA ev :
    IF ev.victim = NoBuffer THEN PoolResult("NoFreeBuffer", NoBuffer, ev.bm)
    ELSE
    Bind(ev.bm.pool.buffers[ev.victim], LAMBDA frame :
    Bind(write_back(ev.bm, frame), LAMBDA w :
    IF ~w.ok THEN PoolResult("Io", NoBuffer, w.bm)
    ELSE
    Bind(allocate_page(w.bm), LAMBDA a :
    PoolResult("Ok", ev.victim,
        [a.bm EXCEPT
           !.pool.buffers[ev.victim] =
               [usage_count |-> 1, pins |-> frame.pins + 1, page_id |-> a.page_id,
                page |-> ZeroPage, is_dirty |-> FALSE],
           !.page_table =
               table_insert(table_remove(@, frame.page_id), a.page_id, ev.victim)])))))

create_page(bm) ==
    IF is_infinity(bm) THEN infinity_create_page(bm)
    ELSE
    Bind(evict(bm), LAMBDA ev :
    IF ev.victim = NoBuffer THEN PoolResult("NoFreeBuffer", NoBuffer, ev.bm)
    ELSE
    Bind(ev.bm.pool.buffers[ev.victim], LAMBDA frame :
    Bind(write_back(ev.bm, frame), LAMBDA w :
    IF ~w.ok THEN PoolResult("Io", NoBuffer, w.bm)
    ELSE
    Bind(allocate_page(w.bm), LAMBDA a :
    PoolResult("Ok", ev.victim,
        [a.bm EXCEPT
           !.pool.buffers[ev.victim] =
               [usage_count |-> 1, pins |-> frame.pins + 1, page_id |-> a.page_id,
                page |-> ZeroPage, is_dirty |-> TRUE],
           !.page_table =
               table_insert(table_remove(@, frame.page_id), a.page_id, ev.victim)])))))

(***************************************************************************)
(* ClockSweepManager::flush.  The HashMap is iterated in an order the      *)
(* program does not choose: order is a sequence of the mapped page ids.    *)
(***************************************************************************)
RECURSIVE flush_loop(_, _)
flush_loop(bm, order) ==
    IF order = <<>>
    THEN Bind(sync(bm), LAMBDA s : [res |-> IF s.ok THEN "Ok" ELSE "Io", bm |-> s.bm])
    ELSE Bind(write_page_data(bm, Head(order),
                              bm.pool.buffers[bm.page_table[Head(order)]].page), LAMBDA w :
         IF ~w.ok THEN [res |-> "Io", bm |-> w.bm]
         ELSE flush_loop(
                  [w.bm EXCEPT !.pool.buffers[bm.page_table[Head(order)]].is_dirty = FALSE],
                  Tail(order)))

\* the flush that writes the dirty pages only
flush_dirty_only(bm, order) ==
    LET dirty(page_id) == bm.pool.buffers[bm.page_table[page_id]].is_dirty
    IN  flush_loop(bm, SelectSeq(order, dirty))

\* the flush that syncs the file and writes nothing
flush_sync_only(bm, order) == flush_loop(bm, <<>>)

flush(bm, order) == flush_loop(bm, order)

\* dropping one clone of the Rc<Buffer> of frame buffer_id
release(bm, buffer_id) == [bm EXCEPT !.pool.buffers[buffer_id].pins = @ - 1]

(***************************************************************************)
(* Calls on the pool by its user.  Begin sets what the storage will do     *)
(* during the call and empties the trace, so that history is the trace of  *)
(* the most recent call.                                                   *)
(***************************************************************************)
NoTree == [meta_page_id |-> INVALID_PAGE_ID]

\* no MemoryManager is driven beside the pool's storage
NoMemory == [next_page_id |-> -1]
NoCodec == [stage |-> "none"]
NoTable == [num_key_elems |-> 0]
NoExec == [exec |-> "None"]
NoSweep == [pc |-> "idle"]
NoInfinity == [res |-> "none"]

Begin(bm, fail) ==
    [bm EXCEPT !.disk.history = <<>>, !.disk.fail_in = fail, !.peak = NumPinned(bm)]

End(bm) == [bm EXCEPT !.disk.fail_in = 0]

AllPinned(bm) == \A b \in BufferIds(bm) : pinned(bm, b)

\* what is recorded of a call: its name, its outcome and the frame whose
\* buffer it returned
Did(op, res, buf) == [op |-> op, res |-> res, buf |-> buf]

\* the ids of the pages that the call with result r wrote to the heap file:
\* those of its calls of write_page_data, but for the one that failed
Wrote(r) ==
    {r.bm.disk.history[i][2] :
        i \in {j \in DOMAIN r.bm.disk.history :
                  /\ r.bm.disk.history[j][1] = "Write"
                  /\ r.res = "Io" => j < Len(r.bm.disk.history)}}

FetchPage(page_id, fail) ==
    LET r == fetch_page(Begin(bufmgr, fail), page_id)
    IN  /\ page_id \in DOMAIN bufmgr.page_table =>
                  LET frame == bufmgr.pool.buffers[bufmgr.page_table[page_id]]
                  IN  frame.usage_count < MaxUsage /\ frame.pins < MaxPins
        /\ bufmgr' = End(r.bm)
        /\ last' = Did("fetch_page", r.res, r.buf)
        /\ stored' = stored \cup Wrote(r)
        /\ UNCHANGED <<written, btree, inserted, reads, memory, codec, table, exec, sweep, infinity>>

CreatePage(fail) ==
    LET r == create_page(Begin(bufmgr, fail))
    IN  /\ bufmgr.disk.next_page_id < MaxPages
        /\ bufmgr' = End(r.bm)
        /\ last' = Did("create_page", r.res, r.buf)
        /\ written' = IF r.res = "Ok"
                      THEN table_insert(written, r.bm.pool.buffers[r.buf].page_id, ZeroPage)
                      ELSE written
        /\ stored' = stored \cup Wrote(r)
        /\ UNCHANGED <<btree, inserted, reads, memory, codec, table, exec, sweep, infinity>>

\* the holder of a buffer overwrites its page and sets is_dirty
Mutate(buffer_id, fill) ==
    LET frame == bufmgr.pool.buffers[buffer_id]
    IN  /\ pinned(bufmgr, buffer_id)
        /\ bufmgr' = Begin([bufmgr EXCEPT
                               !.pool.buffers[buffer_id].page = FilledPage(fill),
                               !.pool.buffers[buffer_id].is_dirty = TRUE], 0)
        /\ last' = Did("mutate", "Ok", NoBuffer)
        /\ written' = table_insert(written, frame.page_id, FilledPage(fill))
        /\ UNCHANGED <<btree, inserted, reads, memory, codec, table, exec, sweep, infinity, stored>>

\* a holder drops its Rc<Buffer>
Release(buffer_id) ==
    /\ pinned(bufmgr, buffer_id)
    /\ bufmgr' = Begin(release(bufmgr, buffer_id), 0)
    /\ last' = Did("release", "Ok", NoBuffer)
    /\ UNCHANGED <<written, btree, inserted, reads, memory, codec, table, exec, sweep, infinity, stored>>

\* the orders in which a HashMap over the ids of S may be iterated
Orders(S) ==
    {o \in [1 .. Cardinality(S) -> S] : \A i, j \in DOMAIN o : i # j => o[i] # o[j]}

Flush(order, fail) ==
    LET r == flush(Begin(bufmgr, fail), order)
    IN  /\ bufmgr' = End(r.bm)
        /\ last' = Did("flush", r.res, NoBuffer)
        /\ stored' = stored \cup Wrote(r)
        /\ UNCHANGED <<written, btree, inserted, reads, memory, codec, table, exec, sweep, infinity>>

(***************************************************************************)
(* SpecPool: the pool over a storage that does not fail; pages are fetched *)
(* by ids that allocate_page has returned.                                 *)
(***************************************************************************)
InitPool ==
    /\ \E pool_size \in 1 .. MaxPoolSize : bufmgr = NewManager(pool_size, <<>>)
    /\ last = Did("new", "Ok", NoBuffer)
    /\ written = <<>>
    /\ btree = NoTree
    /\ inserted = <<>>
    /\ reads = 0
    /\ stored = {}
    /\ infinity = NoInfinity
    /\ sweep = NoSweep
    /\ exec = NoExec
    /\ table = NoTable
    /\ codec = NoCodec
    /\ memory = NoMemory

NextPool ==
    \/ \E page_id \in 0 .. bufmgr.disk.next_page_id - 1 : FetchPage(page_id, 0)
    \/ CreatePage(0)
    \/ \E buffer_id \in BufferIds(bufmgr), fill \in Fills : Mutate(buffer_id, fill)
    \/ \E buffer_id \in BufferIds(bufmgr) : Release(buffer_id)
    \/ \E order \in Orders(DOMAIN bufmgr.page_table) : Flush(order, 0)

SpecPool == InitPool /\ [][NextPool]_vars

(***************************************************************************)
(* SpecSweep: the calls of SpecPool, and evict taken one turn of its loop   *)
(* at a time on the pool as fetch_page and create_page hand it over.  The  *)
(* loop runs on the caller's thread with nothing else touching the pool    *)
(* (&mut self), so a turn that can be taken is taken: WF on SweepStep.     *)
(***************************************************************************)
SweepStart ==
    /\ sweep.pc # "loop"
    /\ sweep' = [pc |-> "loop", consecutive_pinned |-> 0, victim |-> NoBuffer,
                 bm |-> bufmgr]
    /\ UNCHANGED <<bufmgr, last, written, btree, inserted, reads, memory, codec, table, exec, infinity, stored>>

SweepStep ==
    /\ sweep.pc = "loop"
    /\ sweep' = evict_step(sweep.bm, sweep.consecutive_pinned)
    /\ UNCHANGED <<bufmgr, last, written, btree, inserted, reads, memory, codec, table, exec, infinity, stored>>

\* the caller goes on with what evict returned
SweepEnd ==
    /\ sweep.pc = "returned"
    /\ sweep' = NoSweep
    /\ UNCHANGED <<bufmgr, last, written, btree, inserted, reads, memory, codec, table, exec, infinity, stored>>

NextSweep ==
    \/ sweep = NoSweep /\ NextPool
    \/ SweepStart
    \/ SweepStep
    \/ SweepEnd

SpecSweep == InitPool /\ [][NextSweep]_vars /\ WF_vars(SweepStep)

(***************************************************************************)
(* SpecPoolIo: the same calls over a storage whose reads, writes and syncs *)
(* may fail, and with fetch_page of ids past the end of the file.          *)
(***************************************************************************)
MaxFailAt == 3        \* the storage call of a pool call that fails: 1..MaxFailAt, 0 = none

NextPoolIo ==
    \/ \E page_id \in 0 .. MaxPages - 1, fail \in 0 .. MaxFailAt : FetchPage(page_id, fail)
    \/ \E fail \in 0 .. MaxFailAt : CreatePage(fail)
    \/ \E buffer_id \in BufferIds(bufmgr), fill \in Fills : Mutate(buffer_id, fill)
    \/ \E buffer_id \in BufferIds(bufmgr) : Release(buffer_id)
    \/ \E order \in Orders(DOMAIN bufmgr.page_table), fail \in 0 .. MaxFailAt :
           Flush(order, fail)

SpecPoolIo == InitPool /\ [][NextPoolIo]_vars

(***************************************************************************)
(* MemoryManager (storage/memory.rs): next_page_id and the Vec of pages.   *)
(* An index past the end of the Vec panics.                                *)
(***************************************************************************)
NewMemory == [next_page_id |-> 0, heap |-> <<>>]

memory_allocate_page(mm) ==
    [page_id |-> mm.next_page_id,
     mm |-> [mm EXCEPT !.next_page_id = @ + 1, !.heap = Append(@, ZeroPage)]]

memory_read_page_data(mm, page_id) ==
    IF page_id < Len(mm.heap)
    THEN [res |-> "Ok", data |-> mm.heap[page_id + 1], mm |-> mm]
    ELSE [res |-> "Panic", data |-> ZeroPage, mm |-> mm]

memory_write_page_data(mm, page_id, data) ==
    IF page_id < Len(mm.heap)
    THEN [res |-> "Ok", mm |-> [mm EXCEPT !.heap[page_id + 1] = data]]
    ELSE [res |-> "Panic", mm |-> mm]

memory_sync(mm) == [res |-> "Ok", mm |-> mm]

(***************************************************************************)
(* SpecStorage: the calls of the StorageManager trait made on a            *)
(* DiskManager (the storage of bufmgr, whose pool is not used) over a file *)
(* that exists when the manager is made, and, when that file is empty,     *)
(* the same calls made on a MemoryManager beside it.  The MemoryManager is *)
(* gone (NoMemory) once a call on it has panicked or the DiskManager has   *)
(* been dropped and the file reopened.                                     *)
(***************************************************************************)
MaxInstances == 2     \* DiskManager::new is called at most MaxInstances times on the file

\* the files DiskManager::new is first given
InitialFiles ==
    {<<>>, <<PartialPage(1)>>, <<FilledPage(FillByte)>>,
     <<FilledPage(FillByte), PartialPage(PAGE_SIZE - 1)>>}

\* the outcome of a call on the MemoryManager, None when there is none
OnMemory(present, outcome) == IF present THEN outcome ELSE [res |-> "None"]

\* the MemoryManager after a call: gone when the call panicked
MemoryAfter(r) == IF r.res = "Panic" THEN NoMemory ELSE r.mm

\* what is recorded of a storage call: its name, its argument, the number of
\* the DiskManager instance, and the outcome on either manager
StorageDid(op, page_id, disk, mem) ==
    [op |-> op, res |-> disk.res, buf |-> NoBuffer, page_id |-> page_id,
     instance |-> IF "instance" \in DOMAIN last THEN last.instance ELSE 1,
     disk |-> disk, memory |-> mem]

AllocatePage ==
    LET d == allocate_page(Begin(bufmgr, 0))
        m == memory_allocate_page(memory)
    IN  /\ bufmgr.disk.next_page_id < MaxPages
        /\ bufmgr' = End(d.bm)
        /\ memory' = IF memory = NoMemory THEN NoMemory ELSE m.mm
        /\ last' = StorageDid("allocate_page", d.page_id,
                              [res |-> "Ok", page_id |-> d.page_id],
                              OnMemory(memory # NoMemory,
                                       [res |-> "Ok", page_id |-> m.page_id]))
        /\ UNCHANGED <<written, btree, inserted, reads, codec, table, exec, sweep, infinity, stored>>

WritePageData(page_id, data) ==
    LET d == write_page_data(Begin(bufmgr, 0), page_id, data)
        m == memory_write_page_data(memory, page_id, data)
    IN  /\ bufmgr' = End(d.bm)
        /\ memory' = IF memory = NoMemory THEN NoMemory ELSE MemoryAfter(m)
        /\ written' = IF d.ok THEN table_insert(written, page_id, data) ELSE written
        /\ last' = StorageDid("write_page_data", page_id,
                              [res |-> IF d.ok THEN "Ok" ELSE "Io"],
                              OnMemory(memory # NoMemory, [res |-> m.res]))
        /\ UNCHANGED <<btree, inserted, reads, codec, table, exec, sweep, infinity, stored>>

ReadPageData(page_id) ==
    LET d == read_page_data(Begin(bufmgr, 0), page_id)
        m == memory_read_page_data(memory, page_id)
    IN  /\ bufmgr' = End(d.bm)
        /\ memory' = IF memory = NoMemory THEN NoMemory ELSE MemoryAfter(m)
        /\ last' = StorageDid("read_page_data", page_id,
                              IF d.ok THEN [res |-> "Ok", data |-> d.data]
                              ELSE [res |-> "Io"],
                              OnMemory(memory # NoMemory,
                                       IF m.res = "Ok" THEN [res |-> "Ok", data |-> m.data]
                                       ELSE [res |-> m.res]))
        /\ UNCHANGED <<written, btree, inserted, reads, codec, table, exec, sweep, infinity, stored>>

Sync ==
    LET d == sync(Begin(bufmgr, 0))
    IN  /\ bufmgr' = End(d.bm)
        /\ last' = StorageDid("sync", INVALID_PAGE_ID,
                              [res |-> IF d.ok THEN "Ok" ELSE "Io"],
                              OnMemory(memory # NoMemory, [res |-> memory_sync(memory).res]))
        /\ UNCHANGED <<written, btree, inserted, reads, memory, codec, table, exec, sweep, infinity, stored>>

\* drop(disk); DiskManager::open(&data_file_path)
ReopenFile ==
    /\ "instance" \in DOMAIN last => last.instance < MaxInstances
    /\ bufmgr' = NewManager(1, bufmgr.disk.heap_file)
    /\ memory' = NoMemory
    /\ last' = [op |-> "open", res |-> "Ok", buf |-> NoBuffer,
                instance |-> IF "instance" \in DOMAIN last THEN last.instance + 1 ELSE 2]
    /\ UNCHANGED <<written, btree, inserted, reads, codec, table, exec, sweep, infinity, stored>>

InitStorage ==
    /\ \E file \in InitialFiles :
           /\ bufmgr = NewManager(1, file)
           /\ memory = IF file = <<>> THEN NewMemory ELSE NoMemory
    /\ last = Did("new", "Ok", NoBuffer)
    /\ written = <<>>
    /\ btree = NoTree
    /\ inserted = <<>>
    /\ reads = 0
    /\ stored = {}
    /\ infinity = NoInfinity
    /\ sweep = NoSweep
    /\ exec = NoExec
    /\ table = NoTable
    /\ codec = NoCodec

NextStorage ==
    \/ AllocatePage
    \/ \E page_id \in 0 .. MaxPages, fill \in Fills : WritePageData(page_id, FilledPage(fill))
    \/ \E page_id \in 0 .. MaxPages : ReadPageData(page_id)
    \/ Sync
    \/ ReopenFile

SpecStorage == InitStorage /\ [][NextStorage]_vars

(***************************************************************************)
(* B+tree pages.  The node, leaf, branch, meta, slotted and bsearch        *)
(* modules of rdbms/btree are modelled from the specification: a page is   *)
(* a record of the fields of its layout, pairs is the slot directory in    *)
(* slot order, and the space of the slotted region is counted in units:    *)
(* a node has LeafCap or BranchCap units, a pair takes pair_size units,    *)
(* and an insert fits iff the free space is at least the pair's size.      *)
(***************************************************************************)
MaxKey == 5           \* keys are be_u64(1) .. be_u64(MaxKey)
LeafCap == 4          \* units of pair space in a leaf
BranchCap == 2        \* units of pair space in a branch
TreePoolSize == 5     \* frames of the pool under the B+tree

\* u64::to_be_bytes, for numbers below 2^32 (the upper four bytes are zero)
be_u64(n) ==
    [i \in 1 .. 8 |-> IF i <= 4 THEN 0
                      ELSE IF i = 5 THEN (n \div 16777216) % 256
                      ELSE IF i = 6 THEN (n \div 65536) % 256
                      ELSE IF i = 7 THEN (n \div 256) % 256
                      ELSE n % 256]

Keys == {be_u64(n) : n \in 1 .. MaxKey}

\* the values of the tests: a short one and the 1500-byte long_padding
Values == {"hello", "long_padding"}

\* <[u8] as Ord>::cmp: lexicographic, a proper prefix is less
RECURSIVE cmp_from(_, _, _)
cmp_from(a, b, i) ==
    IF i > Len(a) /\ i > Len(b) THEN "Equal"
    ELSE IF i > Len(a) THEN "Less"
    ELSE IF i > Len(b) THEN "Greater"
    ELSE IF a[i] < b[i] THEN "Less"
    ELSE IF a[i] > b[i] THEN "Greater"
    ELSE cmp_from(a, b, i + 1)

cmp(a, b) == cmp_from(a, b, 1)

\* bsearch::binary_search_by over the keys of pairs: Ok(index) or Err(index)
RECURSIVE binary_search_by(_, _, _, _)
binary_search_by(pairs, key, left, right) ==
    IF left >= right THEN [found |-> FALSE, idx |-> left]
    ELSE LET mid == left + (right - left) \div 2
             c == cmp(pairs[mid + 1].key, key)
         IN  IF c = "Less" THEN binary_search_by(pairs, key, mid + 1, right)
             ELSE IF c = "Greater" THEN binary_search_by(pairs, key, left, mid)
             ELSE [found |-> TRUE, idx |-> mid]

search_slot_id(node, key) == binary_search_by(node.pairs, key, 0, Len(node.pairs))

num_pairs(node) == Len(node.pairs)

pair_at(node, slot_id) == node.pairs[slot_id + 1]

\* the serialized size of a pair, in units: a (key, page id) pair of a branch
\* and a pair with a short value take one, a pair with the long value two
pair_size(kind, pair) ==
    IF kind = "leaf" /\ pair.value = "long_padding" THEN 2 ELSE 1

RECURSIVE used_space(_, _)
used_space(kind, pairs) ==
    IF pairs = <<>> THEN 0
    ELSE pair_size(kind, Head(pairs)) + used_space(kind, Tail(pairs))

capacity(node) == IF node.kind = "leaf" THEN LeafCap ELSE BranchCap

free_space(node) == capacity(node) - used_space(node.kind, node.pairs)

is_half_full(node) == 2 * free_space(node) < capacity(node)

\* Meta: the page that holds root_page_id
MetaPage(root_page_id) == [kind |-> "meta", root_page_id |-> root_page_id]

\* Node::initialize_as_leaf and Leaf::initialize
EmptyLeaf ==
    [kind |-> "leaf", prev_page_id |-> INVALID_PAGE_ID,
     next_page_id |-> INVALID_PAGE_ID, pairs |-> <<>>]

\* Node::initialize_as_branch and the initialized slotted body
EmptyBranch == [kind |-> "branch", right_child |-> INVALID_PAGE_ID, pairs |-> <<>>]

\* the slotted insert of a pair at slot_id: None when the pair does not fit
node_insert(node, slot_id, key, value) ==
    LET pair == [key |-> key, value |-> value]
        ok == pair_size(node.kind, pair) <= free_space(node)
    IN  [ok |-> ok,
         node |-> IF ok
                  THEN [node EXCEPT !.pairs = SubSeq(@, 1, slot_id) \o <<pair>>
                                                \o SubSeq(@, slot_id + 1, Len(@))]
                  ELSE node]

\* moves the first pair of from to the end of to
transfer(from, to) ==
    [from |-> [from EXCEPT !.pairs = Tail(@)],
     to |-> [to EXCEPT !.pairs = Append(@, Head(from.pairs))]]

\* the split of a full node: pairs move from the old node to the new one, which
\* is the left one, until the new node is half full; the new pair goes to the
\* side its key belongs to
RECURSIVE fill_new(_, _)
fill_new(old, new) ==
    IF is_half_full(new) THEN [from |-> old, to |-> new]
    ELSE LET t == transfer(old, new) IN fill_new(t.from, t.to)

RECURSIVE split_insert_loop(_, _, _, _)
split_insert_loop(old, new, key, value) ==
    IF is_half_full(new)
    THEN [old |-> node_insert(old, search_slot_id(old, key).idx, key, value).node,
          new |-> new]
    ELSE IF cmp(pair_at(old, 0).key, key) = "Less"
    THEN LET t == transfer(old, new) IN split_insert_loop(t.from, t.to, key, value)
    ELSE LET placed == node_insert(new, num_pairs(new), key, value).node
             t == fill_new(old, placed)
         IN  [old |-> t.from, new |-> t.to]

\* Leaf::split_insert: the overflow key is the first key of the old leaf
leaf_split_insert(leaf, new_leaf, key, value) ==
    LET s == split_insert_loop(leaf, new_leaf, key, value)
    IN  [old |-> s.old, new |-> s.new, overflow_key |-> pair_at(s.old, 0).key]

\* Branch::split_insert: the last pair of the new branch becomes its right
\* child and its key the overflow key
branch_split_insert(branch, new_branch, key, page_id) ==
    LET s == split_insert_loop(branch, new_branch, key, page_id)
        n == num_pairs(s.new)
        top == pair_at(s.new, n - 1)
    IN  [old |-> s.old,
         new |-> [s.new EXCEPT !.pairs = SubSeq(@, 1, n - 1), !.right_child = top.value],
         overflow_key |-> top.key]

\* Branch::search_child_idx: a key equal to a separator goes to the right
search_child_idx(branch, key) ==
    LET s == search_slot_id(branch, key)
    IN  IF s.found THEN s.idx + 1 ELSE s.idx

child_at(branch, child_idx) ==
    IF child_idx = num_pairs(branch) THEN branch.right_child
    ELSE pair_at(branch, child_idx).value

search_child(branch, key) == child_at(branch, search_child_idx(branch, key))

\* Branch::initialize(key, left_child, right_child)
branch_initialize(key, left_child, right_child) ==
    [kind |-> "branch", right_child |-> right_child,
     pairs |-> << [key |-> key, value |-> left_child] >>]

(***************************************************************************)
(* BTree (rdbms/btree.rs).  A buffer is named by its frame; the page of a  *)
(* held buffer is read and written in place, and every Rc<Buffer> that     *)
(* goes out of scope is released where the code drops it.                  *)
(***************************************************************************)
page_of(bm, buffer) == bm.pool.buffers[buffer].page

page_id_of(bm, buffer) == bm.pool.buffers[buffer].page_id

set_page(bm, buffer, page) == [bm EXCEPT !.pool.buffers[buffer].page = page]

\* an insert that does not mark the page it wrote
set_dirty_skipped(bm, buffer) == bm

\* buffer.is_dirty.set(true)
set_dirty(bm, buffer) == [bm EXCEPT !.pool.buffers[buffer].is_dirty = TRUE]

\* the drop of an Option<Rc<Buffer>>
release_opt(bm, buffer) == IF buffer = NoBuffer THEN bm ELSE release(bm, buffer)

Start == [mode |-> "Start"]

Key(key) == [mode |-> "Key", key |-> key]

NoIter == [buffer |-> NoBuffer, slot_id |-> 0]

None == [some |-> FALSE]

Some(x) == [some |-> TRUE, get |-> x]

\* SearchMode::child_page_id
child_page_id(search_mode, branch) ==
    IF search_mode.mode = "Start" THEN child_at(branch, 0)
    ELSE search_child(branch, search_mode.key)

\* SearchMode::tuple_slot_id, after unwrap_or_else(identity)
tuple_slot_id(search_mode, leaf) ==
    IF search_mode.mode = "Start" THEN 0
    ELSE search_slot_id(leaf, search_mode.key).idx

\* BTree::create
create(bm) ==
    Bind(create_page(bm), LAMBDA meta_buffer :
    IF meta_buffer.res # "Ok"
    THEN [res |-> meta_buffer.res, meta_page_id |-> INVALID_PAGE_ID, bm |-> meta_buffer.bm]
    ELSE
    Bind(create_page(meta_buffer.bm), LAMBDA root_buffer :
    IF root_buffer.res # "Ok"
    THEN [res |-> root_buffer.res, meta_page_id |-> INVALID_PAGE_ID,
          bm |-> release(root_buffer.bm, meta_buffer.buf)]
    ELSE [res |-> "Ok",
          meta_page_id |-> page_id_of(root_buffer.bm, meta_buffer.buf),
          bm |-> release(
                     release(
                         set_page(set_page(root_buffer.bm, root_buffer.buf, EmptyLeaf),
                                  meta_buffer.buf,
                                  MetaPage(page_id_of(root_buffer.bm, root_buffer.buf))),
                         root_buffer.buf),
                     meta_buffer.buf)]))

\* a fetch_root_page that drops the meta buffer after it has fetched the root
fetch_root_page_holding_meta(bm, meta_page_id) ==
    Bind(fetch_page(bm, meta_page_id), LAMBDA meta_buffer :
    IF meta_buffer.res # "Ok" THEN meta_buffer
    ELSE Bind(fetch_page(meta_buffer.bm,
                         page_of(meta_buffer.bm, meta_buffer.buf).root_page_id),
              LAMBDA root_buffer :
              [root_buffer EXCEPT !.bm = release(@, meta_buffer.buf)]))

\* BTree::fetch_root_page: the meta buffer is dropped before the root is fetched
fetch_root_page(bm, meta_page_id) ==
    Bind(fetch_page(bm, meta_page_id), LAMBDA meta_buffer :
    IF meta_buffer.res # "Ok" THEN meta_buffer
    ELSE fetch_page(release(meta_buffer.bm, meta_buffer.buf),
                    page_of(meta_buffer.bm, meta_buffer.buf).root_page_id))

\* BTree::search_internal
RECURSIVE search_internal(_, _, _)
search_internal(bm, node_buffer, search_mode) ==
    Bind(page_of(bm, node_buffer), LAMBDA node :
    IF node.kind = "leaf"
    THEN [res |-> "Ok",
          iter |-> [buffer |-> node_buffer, slot_id |-> tuple_slot_id(search_mode, node)],
          bm |-> bm]
    ELSE
    Bind(fetch_page(release(bm, node_buffer), child_page_id(search_mode, node)),
         LAMBDA child_node_page :
    IF child_node_page.res # "Ok"
    THEN [res |-> child_node_page.res, iter |-> NoIter, bm |-> child_node_page.bm]
    ELSE search_internal(child_node_page.bm, child_node_page.buf, search_mode)))

\* BTree::search
search(bm, meta_page_id, search_option) ==
    Bind(fetch_root_page(bm, meta_page_id), LAMBDA root_page :
    IF root_page.res # "Ok"
    THEN [res |-> root_page.res, iter |-> NoIter, bm |-> root_page.bm]
    ELSE search_internal(root_page.bm, root_page.buf, search_option))

\* Iter::get
get(bm, iter) ==
    IF iter.slot_id < num_pairs(page_of(bm, iter.buffer))
    THEN Some(pair_at(page_of(bm, iter.buffer), iter.slot_id))
    ELSE None

\* an iterator that never follows next_page_id
next_within_leaf(bm, iter) ==
    [res |-> "Ok", item |-> get(bm, iter),
     iter |-> [iter EXCEPT !.slot_id = @ + 1], bm |-> bm]

\* Iter::next
next(bm, iter) ==
    Bind(page_of(bm, iter.buffer), LAMBDA leaf :
    IF iter.slot_id + 1 < num_pairs(leaf) \/ leaf.next_page_id = INVALID_PAGE_ID
    THEN [res |-> "Ok", item |-> get(bm, iter),
          iter |-> [iter EXCEPT !.slot_id = @ + 1], bm |-> bm]
    ELSE
    Bind(fetch_page(bm, leaf.next_page_id), LAMBDA fetched :
    IF fetched.res # "Ok"
    THEN [res |-> fetched.res, item |-> None,
          iter |-> [iter EXCEPT !.slot_id = @ + 1], bm |-> fetched.bm]
    ELSE [res |-> "Ok", item |-> get(bm, iter),
          iter |-> [buffer |-> fetched.buf, slot_id |-> 0],
          bm |-> release(fetched.bm, iter.buffer)]))

NoOverflow == [some |-> FALSE]

Overflow(key, page_id) == [some |-> TRUE, key |-> key, page_id |-> page_id]

InsertResult(res, overflow, bm) == [res |-> res, overflow |-> overflow, bm |-> bm]

\* a split that leaves the previous leaf pointing at the old leaf
relink_prev_skipped(bm, prev_leaf_buffer, page_id) == bm

\* prev_leaf.set_next_page_id(Some(page_id)); prev_leaf_buffer.is_dirty.set(true)
relink_prev(bm, prev_leaf_buffer, page_id) ==
    IF prev_leaf_buffer = NoBuffer THEN bm
    ELSE set_dirty(set_page(bm, prev_leaf_buffer,
                            [page_of(bm, prev_leaf_buffer) EXCEPT !.next_page_id = page_id]),
                   prev_leaf_buffer)

\* a leaf split that does not give the new leaf its previous leaf
insert_leaf_split_unlinked(bm, buffer, key, value) ==
    Bind(page_of(bm, buffer), LAMBDA leaf :
    Bind(IF leaf.prev_page_id = INVALID_PAGE_ID THEN PoolResult("Ok", NoBuffer, bm)
         ELSE fetch_page(bm, leaf.prev_page_id), LAMBDA prev_leaf_buffer :
    IF prev_leaf_buffer.res # "Ok"
    THEN InsertResult(prev_leaf_buffer.res, NoOverflow, release(prev_leaf_buffer.bm, buffer))
    ELSE
    Bind(create_page(prev_leaf_buffer.bm), LAMBDA new_leaf_buffer :
    IF new_leaf_buffer.res # "Ok"
    THEN InsertResult(new_leaf_buffer.res, NoOverflow,
                      release(release_opt(new_leaf_buffer.bm, prev_leaf_buffer.buf), buffer))
    ELSE
    Bind(page_id_of(new_leaf_buffer.bm, new_leaf_buffer.buf), LAMBDA new_page_id :
    Bind(leaf_split_insert([leaf EXCEPT !.prev_page_id = new_page_id], EmptyLeaf,
                           key, value), LAMBDA split :
    InsertResult("Ok", Overflow(split.overflow_key, new_page_id),
        release(
            release(
                release_opt(
                    set_dirty(
                        set_page(
                            set_page(
                                relink_prev(new_leaf_buffer.bm, prev_leaf_buffer.buf,
                                            new_page_id),
                                new_leaf_buffer.buf,
                                [split.new EXCEPT !.next_page_id = page_id_of(bm, buffer)]),
                            buffer, split.old),
                        buffer),
                    prev_leaf_buffer.buf),
                new_leaf_buffer.buf),
            buffer)))))))

\* BTree::insert_internal, the leaf arm when the pair does not fit: the new leaf
\* is linked between the previous leaf and this one
insert_leaf_split(bm, buffer, key, value) ==
    Bind(page_of(bm, buffer), LAMBDA leaf :
    Bind(IF leaf.prev_page_id = INVALID_PAGE_ID THEN PoolResult("Ok", NoBuffer, bm)
         ELSE fetch_page(bm, leaf.prev_page_id), LAMBDA prev_leaf_buffer :
    IF prev_leaf_buffer.res # "Ok"
    THEN InsertResult(prev_leaf_buffer.res, NoOverflow, release(prev_leaf_buffer.bm, buffer))
    ELSE
    Bind(create_page(prev_leaf_buffer.bm), LAMBDA new_leaf_buffer :
    IF new_leaf_buffer.res # "Ok"
    THEN InsertResult(new_leaf_buffer.res, NoOverflow,
                      release(release_opt(new_leaf_buffer.bm, prev_leaf_buffer.buf), buffer))
    ELSE
    Bind(page_id_of(new_leaf_buffer.bm, new_leaf_buffer.buf), LAMBDA new_page_id :
    Bind(leaf_split_insert([leaf EXCEPT !.prev_page_id = new_page_id], EmptyLeaf,
                           key, value), LAMBDA split :
    InsertResult("Ok", Overflow(split.overflow_key, new_page_id),
        release(
            release(
                release_opt(
                    set_dirty(
                        set_page(
                            set_page(
                                relink_prev(new_leaf_buffer.bm, prev_leaf_buffer.buf,
                                            new_page_id),
                                new_leaf_buffer.buf,
                                [split.new EXCEPT !.next_page_id = page_id_of(bm, buffer),
                                                  !.prev_page_id = leaf.prev_page_id]),
                            buffer, split.old),
                        buffer),
                    prev_leaf_buffer.buf),
                new_leaf_buffer.buf),
            buffer)))))))

\* a leaf arm that overwrites the value of a key it finds
insert_leaf_overwriting(bm, buffer, key, value) ==
    Bind(search_slot_id(page_of(bm, buffer), key), LAMBDA slot :
    IF slot.found
    THEN InsertResult("DuplicateKey", NoOverflow,
             release(set_dirty(set_page(bm, buffer,
                                   [page_of(bm, buffer) EXCEPT
                                        !.pairs[slot.idx + 1].value = value]),
                               buffer),
                     buffer))
    ELSE
    Bind(node_insert(page_of(bm, buffer), slot.idx, key, value), LAMBDA fit :
    IF fit.ok
    THEN InsertResult("Ok", NoOverflow,
                      release(set_dirty(set_page(bm, buffer, fit.node), buffer), buffer))
    ELSE insert_leaf_split(bm, buffer, key, value)))

\* a leaf arm that has linked the leaf to the page to come before it asks for it
insert_leaf_linked_early(bm, buffer, key, value) ==
    Bind(search_slot_id(page_of(bm, buffer), key), LAMBDA slot :
    IF slot.found
    THEN InsertResult("DuplicateKey", NoOverflow, release(bm, buffer))
    ELSE
    Bind(node_insert(page_of(bm, buffer), slot.idx, key, value), LAMBDA fit :
    IF fit.ok
    THEN InsertResult("Ok", NoOverflow,
                      release(set_dirty(set_page(bm, buffer, fit.node), buffer), buffer))
    ELSE
    Bind(insert_leaf_split(bm, buffer, key, value), LAMBDA r :
    IF r.res = "Ok" THEN r
    ELSE [r EXCEPT !.bm = set_dirty(set_page(r.bm, buffer,
                              [page_of(bm, buffer) EXCEPT
                                   !.prev_page_id = bm.disk.next_page_id]),
                              buffer)])))

\* BTree::insert_internal, the leaf arm
insert_leaf(bm, buffer, key, value) ==
    Bind(search_slot_id(page_of(bm, buffer), key), LAMBDA slot :
    IF slot.found
    THEN InsertResult("DuplicateKey", NoOverflow, release(bm, buffer))
    ELSE
    Bind(node_insert(page_of(bm, buffer), slot.idx, key, value), LAMBDA fit :
    IF fit.ok
    THEN InsertResult("Ok", NoOverflow,
                      release(set_dirty(set_page(bm, buffer, fit.node), buffer), buffer))
    ELSE insert_leaf_split(bm, buffer, key, value)))

\* a branch arm that forgets the overflow of its child
insert_branch_overflow_dropped(bm, buffer, child_idx, overflow) ==
    InsertResult("Ok", NoOverflow, release(bm, buffer))

\* a branch arm that puts the overflow of its child in the first slot
insert_branch_overflow_first(bm, buffer, child_idx, overflow) ==
    Bind(node_insert(page_of(bm, buffer), 0, overflow.key, overflow.page_id),
         LAMBDA fit :
    IF fit.ok
    THEN InsertResult("Ok", NoOverflow,
                      release(set_dirty(set_page(bm, buffer, fit.node), buffer), buffer))
    ELSE InsertResult("Ok", NoOverflow, release(bm, buffer)))

\* BTree::insert_internal, the branch arm after the child returned an overflow
insert_branch_overflow(bm, buffer, child_idx, overflow) ==
    Bind(node_insert(page_of(bm, buffer), child_idx, overflow.key, overflow.page_id),
         LAMBDA fit :
    IF fit.ok
    THEN InsertResult("Ok", NoOverflow,
                      release(set_dirty(set_page(bm, buffer, fit.node), buffer), buffer))
    ELSE
    Bind(create_page(bm), LAMBDA new_branch_buffer :
    IF new_branch_buffer.res # "Ok"
    THEN InsertResult(new_branch_buffer.res, NoOverflow,
                      release(new_branch_buffer.bm, buffer))
    ELSE
    Bind(branch_split_insert(page_of(bm, buffer), EmptyBranch,
                             overflow.key, overflow.page_id), LAMBDA split :
    InsertResult("Ok",
        Overflow(split.overflow_key,
                 page_id_of(new_branch_buffer.bm, new_branch_buffer.buf)),
        release(
            release(
                set_dirty(
                    set_dirty(
                        set_page(set_page(new_branch_buffer.bm, new_branch_buffer.buf,
                                          split.new),
                                 buffer, split.old),
                        buffer),
                    new_branch_buffer.buf),
                new_branch_buffer.buf),
            buffer)))))

\* BTree::insert_internal: the buffer it is given is dropped when it returns
RECURSIVE insert_internal(_, _, _, _)
insert_internal(bm, buffer, key, value) ==
    Bind(page_of(bm, buffer), LAMBDA node :
    IF node.kind = "leaf" THEN insert_leaf(bm, buffer, key, value)
    ELSE
    Bind(search_child_idx(node, key), LAMBDA child_idx :
    Bind(fetch_page(bm, child_at(node, child_idx)), LAMBDA child_node_buffer :
    IF child_node_buffer.res # "Ok"
    THEN InsertResult(child_node_buffer.res, NoOverflow,
                      release(child_node_buffer.bm, buffer))
    ELSE
    Bind(insert_internal(child_node_buffer.bm, child_node_buffer.buf, key, value),
         LAMBDA child :
    IF child.res # "Ok" THEN InsertResult(child.res, NoOverflow, release(child.bm, buffer))
    ELSE IF ~child.overflow.some
    THEN InsertResult("Ok", NoOverflow, release(child.bm, buffer))
    ELSE insert_branch_overflow(child.bm, buffer, child_idx, child.overflow)))))

\* a root split that keeps the old root and forgets the overflow
insert_root_split_dropped(bm, meta_buffer, root_page_id, overflow) ==
    [res |-> "Ok", bm |-> release(bm, meta_buffer)]

\* a root split that makes the new sibling the root
insert_root_split_to_sibling(bm, meta_buffer, root_page_id, overflow) ==
    [res |-> "Ok",
     bm |-> release(set_dirty(set_page(bm, meta_buffer, MetaPage(overflow.page_id)),
                              meta_buffer),
                    meta_buffer)]

\* BTree::insert, after insert_internal returned an overflow: the root has split
insert_root_split(bm, meta_buffer, root_page_id, overflow) ==
    Bind(create_page(bm), LAMBDA new_root_buffer :
    IF new_root_buffer.res # "Ok"
    THEN [res |-> new_root_buffer.res, bm |-> release(new_root_buffer.bm, meta_buffer)]
    ELSE [res |-> "Ok",
          bm |-> release(
                     release(
                         set_dirty(
                             set_page(
                                 set_page(new_root_buffer.bm, new_root_buffer.buf,
                                          branch_initialize(overflow.key, overflow.page_id,
                                                            root_page_id)),
                                 meta_buffer,
                                 MetaPage(page_id_of(new_root_buffer.bm,
                                                     new_root_buffer.buf))),
                             meta_buffer),
                         new_root_buffer.buf),
                     meta_buffer)])

\* an insert that keeps the meta buffer when the descent returns an error
insert_keeping_meta(bm, meta_page_id, key, value) ==
    Bind(fetch_page(bm, meta_page_id), LAMBDA meta_buffer :
    IF meta_buffer.res # "Ok" THEN [res |-> meta_buffer.res, bm |-> meta_buffer.bm]
    ELSE
    Bind(page_of(meta_buffer.bm, meta_buffer.buf).root_page_id, LAMBDA root_page_id :
    Bind(fetch_page(meta_buffer.bm, root_page_id), LAMBDA root_buffer :
    IF root_buffer.res # "Ok"
    THEN [res |-> root_buffer.res, bm |-> release(root_buffer.bm, meta_buffer.buf)]
    ELSE
    Bind(insert_internal(root_buffer.bm, root_buffer.buf, key, value), LAMBDA r :
    IF r.res # "Ok" THEN [res |-> r.res, bm |-> r.bm]
    ELSE IF ~r.overflow.some THEN [res |-> "Ok", bm |-> release(r.bm, meta_buffer.buf)]
    ELSE insert_root_split(r.bm, meta_buffer.buf, root_page_id, r.overflow)))))

\* BTree::insert
insert(bm, meta_page_id, key, value) ==
    Bind(fetch_page(bm, meta_page_id), LAMBDA meta_buffer :
    IF meta_buffer.res # "Ok" THEN [res |-> meta_buffer.res, bm |-> meta_buffer.bm]
    ELSE
    Bind(page_of(meta_buffer.bm, meta_buffer.buf).root_page_id, LAMBDA root_page_id :
    Bind(fetch_page(meta_buffer.bm, root_page_id), LAMBDA root_buffer :
    IF root_buffer.res # "Ok"
    THEN [res |-> root_buffer.res, bm |-> release(root_buffer.bm, meta_buffer.buf)]
    ELSE
    Bind(insert_internal(root_buffer.bm, root_buffer.buf, key, value), LAMBDA r :
    IF r.res # "Ok" THEN [res |-> r.res, bm |-> release(r.bm, meta_buffer.buf)]
    ELSE IF ~r.overflow.some THEN [res |-> "Ok", bm |-> release(r.bm, meta_buffer.buf)]
    ELSE insert_root_split(r.bm, meta_buffer.buf, root_page_id, r.overflow)))))

(***************************************************************************)
(* Spec: one B+tree over a pool of TreePoolSize frames and a storage that  *)
(* does not fail.  A call of the access method is one step; a search is    *)
(* the search, the calls of next() until the first None, and the drop of   *)
(* the iterator.                                                           *)
(***************************************************************************)
MaxReads == 1         \* searches and rejected inserts are made while reads < MaxReads

SearchModes == {Start} \cup {Key(k) : k \in Keys}

\* while let Some(item) = iter.next(bufmgr)? { items.push(item) }; drop(iter)
RECURSIVE drain(_, _, _)
drain(bm, iter, items) ==
    Bind(next(bm, iter), LAMBDA n :
    IF n.res # "Ok" \/ ~n.item.some
    THEN [res |-> n.res, items |-> items, bm |-> release(n.bm, n.iter.buffer)]
    ELSE drain(n.bm, n.iter, Append(items, n.item.get)))

\* search(search_option) and the iteration of its result
scan(bm, meta_page_id, search_option) ==
    Bind(search(bm, meta_page_id, search_option), LAMBDA s :
    IF s.res # "Ok" THEN [res |-> s.res, items |-> <<>>, bm |-> s.bm]
    ELSE drain(s.bm, s.iter, <<>>))

Create ==
    LET r == create(Begin(bufmgr, 0))
    IN  /\ btree = NoTree
        /\ bufmgr.disk.next_page_id = 0
        /\ bufmgr' = End(r.bm)
        /\ btree' = IF r.res = "Ok" THEN [meta_page_id |-> r.meta_page_id] ELSE btree
        /\ last' = Did("create", r.res, NoBuffer)
        /\ UNCHANGED <<written, inserted, reads, memory, codec, table, exec, sweep, infinity, stored>>

Insert(key, value) ==
    LET r == insert(Begin(bufmgr, 0), btree.meta_page_id, key, value)
    IN  /\ btree # NoTree
        /\ r.res = "Ok" \/ reads < MaxReads
        /\ bufmgr' = End(r.bm)
        /\ reads' = IF r.res = "Ok" THEN reads ELSE reads + 1
        /\ inserted' = IF r.res = "Ok" THEN table_insert(inserted, key, value)
                       ELSE inserted
        /\ last' = [op |-> "insert", res |-> r.res, buf |-> NoBuffer,
                    key |-> key, value |-> value]
        /\ UNCHANGED <<written, btree, memory, codec, table, exec, sweep, infinity, stored>>

Search(search_option) ==
    LET r == scan(Begin(bufmgr, 0), btree.meta_page_id, search_option)
    IN  /\ btree # NoTree
        /\ reads < MaxReads
        /\ bufmgr' = End(r.bm)
        /\ reads' = reads + 1
        /\ last' = [op |-> "search", res |-> r.res, buf |-> NoBuffer,
                    mode |-> search_option, items |-> r.items]
        /\ UNCHANGED <<written, btree, inserted, memory, codec, table, exec, sweep, infinity, stored>>

Init ==
    /\ bufmgr = NewManager(TreePoolSize, <<>>)
    /\ last = Did("new", "Ok", NoBuffer)
    /\ written = <<>>
    /\ btree = NoTree
    /\ inserted = <<>>
    /\ reads = 0
    /\ stored = {}
    /\ infinity = NoInfinity
    /\ sweep = NoSweep
    /\ exec = NoExec
    /\ table = NoTable
    /\ codec = NoCodec
    /\ memory = NoMemory

Next ==
    \/ Create
    \/ \E key \in Keys, value \in Values : Insert(key, value)
    \/ \E search_option \in SearchModes : Search(search_option)

Spec == Init /\ [][Next]_vars

(***************************************************************************)
(* SpecReopen: the tree is created over a pool of any size up to           *)
(* TreePoolSize, and the program that built it over the full pool may end  *)
(* with flush() and be followed by a program that opens the same file      *)
(* with a fresh pool of any size and BTree::new(meta_page_id)              *)
(* (examples/btree-create.rs, then examples/btree-all.rs).                 *)
(***************************************************************************)
MaxSmallKey == 3      \* keys be_u64(1) .. be_u64(MaxSmallKey) are inserted in SpecReopen, SpecIo

\* the ids of S in ascending order
RECURSIVE Ascending(_)
Ascending(S) ==
    IF S = {} THEN <<>>
    ELSE Bind(CHOOSE x \in S : \A y \in S : x <= y, LAMBDA x :
         <<x>> \o Ascending(S \ {x}))

\* bufmgr.flush()?, the end of the process, then DiskManager::open,
\* ClockSweepManager::new(disk, pool_size) and BTree::new(meta_page_id).  The
\* file that flush leaves does not depend on the order of its writes; they
\* are made in ascending order of page id here.
reopen(bm, pool_size) ==
    Bind(flush(bm, Ascending(DOMAIN bm.page_table)), LAMBDA f :
    [res |-> f.res,
     bm |-> IF f.res = "Ok" THEN NewManager(pool_size, f.bm.disk.heap_file) ELSE f.bm])

Reopen(pool_size) ==
    LET r == reopen(Begin(bufmgr, 0), pool_size)
    IN  /\ btree # NoTree
        /\ size(bufmgr) = TreePoolSize
        /\ bufmgr' = End(r.bm)
        /\ last' = Did("reopen", r.res, NoBuffer)
        /\ UNCHANGED <<written, btree, inserted, reads, memory, codec, table, exec, sweep, infinity, stored>>

InitReopen ==
    /\ \E pool_size \in 1 .. TreePoolSize : bufmgr = NewManager(pool_size, <<>>)
    /\ last = Did("new", "Ok", NoBuffer)
    /\ written = <<>>
    /\ btree = NoTree
    /\ inserted = <<>>
    /\ reads = 0
    /\ stored = {}
    /\ infinity = NoInfinity
    /\ sweep = NoSweep
    /\ exec = NoExec
    /\ table = NoTable
    /\ codec = NoCodec
    /\ memory = NoMemory

NextReopen ==
    \/ Create
    \/ \E n \in 1 .. MaxSmallKey, value \in Values : Insert(be_u64(n), value)
    \/ \E search_option \in SearchModes : Search(search_option)
    \/ \E pool_size \in 1 .. TreePoolSize : Reopen(pool_size)

SpecReopen == InitReopen /\ [][NextReopen]_vars

(***************************************************************************)
(* SpecPoolReopen: the calls of SpecPool, and the end of the program with  *)
(* flush() followed by a program that opens the same file with a fresh     *)
(* pool.                                                                   *)
(***************************************************************************)
ReopenPool(pool_size) ==
    LET r == reopen(Begin(bufmgr, 0), pool_size)
    IN  /\ bufmgr' = End(r.bm)
        /\ last' = Did("reopen", r.res, NoBuffer)
        /\ stored' = stored \cup
                         {p \in DOMAIN bufmgr.page_table : r.res = "Ok"}
        /\ UNCHANGED <<written, btree, inserted, reads, memory, codec, table, exec, sweep, infinity>>

NextPoolReopen ==
    \/ NextPool
    \/ \E pool_size \in 1 .. MaxPoolSize : ReopenPool(pool_size)

SpecPoolReopen == InitPool /\ [][NextPoolReopen]_vars

(***************************************************************************)
(* SpecHeld: the tree over a pool of any size up to TreePoolSize, with a   *)
(* caller that may fetch one page of the file and keep its buffer while    *)
(* keys are inserted with the long value that fills half a leaf.  The     *)
(* storage does not fail.                                                  *)
(***************************************************************************)
\* let held = bufmgr.fetch_page(page_id)?, kept by the caller
Hold(page_id) ==
    LET r == fetch_page(Begin(bufmgr, 0), page_id)
    IN  /\ btree # NoTree
        /\ NumPinned(bufmgr) = 0
        /\ r.res = "Ok"
        /\ bufmgr' = End(r.bm)
        /\ last' = Did("fetch_page", r.res, r.buf)
        /\ UNCHANGED <<written, btree, inserted, reads, memory, codec, table, exec, sweep, infinity, stored>>

NextHeld ==
    \/ Create
    \/ \E key \in Keys : Insert(key, "long_padding")
    \/ \E page_id \in 0 .. bufmgr.disk.next_page_id - 1 : Hold(page_id)

SpecHeld == InitReopen /\ [][NextHeld]_vars

(***************************************************************************)
(* SpecInfinity: every call on the tree over a pool of up to TreePoolSize  *)
(* frames is also made on a tree over an InfinityBuffer, and what the      *)
(* second call returned is kept beside the first.  The calls are those for *)
(* which the pool has frames enough: none that returns NoFreeBuffer.  The  *)
(* keys are inserted with the long value, two pairs to a leaf.             *)
(***************************************************************************)
CreateBoth ==
    LET r == create(Begin(bufmgr, 0))
        q == create(NewInfinity)
    IN  /\ btree = NoTree
        /\ r.res # "NoFreeBuffer"
        /\ bufmgr.disk.next_page_id = 0
        /\ bufmgr' = End(r.bm)
        /\ btree' = IF r.res = "Ok" THEN [meta_page_id |-> r.meta_page_id] ELSE btree
        /\ last' = Did("create", r.res, NoBuffer)
        /\ infinity' = [bm |-> q.bm, meta_page_id |-> q.meta_page_id, res |-> q.res,
                        items |-> <<>>]
        /\ UNCHANGED <<written, inserted, reads, memory, codec, table, exec, sweep, stored>>

InsertBoth(key, value) ==
    LET r == insert(Begin(bufmgr, 0), btree.meta_page_id, key, value)
        q == insert(infinity.bm, infinity.meta_page_id, key, value)
    IN  /\ btree # NoTree
        /\ r.res # "NoFreeBuffer"
        /\ r.res = "Ok" \/ reads < MaxReads
        /\ bufmgr' = End(r.bm)
        /\ reads' = IF r.res = "Ok" THEN reads ELSE reads + 1
        /\ inserted' = IF r.res = "Ok" THEN table_insert(inserted, key, value)
                       ELSE inserted
        /\ last' = [op |-> "insert", res |-> r.res, buf |-> NoBuffer,
                    key |-> key, value |-> value]
        /\ infinity' = [infinity EXCEPT !.bm = q.bm, !.res = q.res, !.items = <<>>]
        /\ UNCHANGED <<written, btree, memory, codec, table, exec, sweep, stored>>

SearchBoth(search_option) ==
    LET r == scan(Begin(bufmgr, 0), btree.meta_page_id, search_option)
        q == scan(infinity.bm, infinity.meta_page_id, search_option)
    IN  /\ btree # NoTree
        /\ r.res # "NoFreeBuffer"
        /\ reads < MaxReads
        /\ bufmgr' = End(r.bm)
        /\ reads' = reads + 1
        /\ last' = [op |-> "search", res |-> r.res, buf |-> NoBuffer,
                    mode |-> search_option, items |-> r.items]
        /\ infinity' = [infinity EXCEPT !.bm = q.bm, !.res = q.res, !.items = q.items]
        /\ UNCHANGED <<written, btree, inserted, memory, codec, table, exec, sweep, stored>>

InitInfinity ==
    /\ \E pool_size \in 1 .. TreePoolSize : bufmgr = NewManager(pool_size, <<>>)
    /\ last = Did("new", "Ok", NoBuffer)
    /\ infinity = [bm |-> NewInfinity, meta_page_id |-> INVALID_PAGE_ID, res |-> "Ok",
                   items |-> <<>>]
    /\ written = <<>>
    /\ btree = NoTree
    /\ inserted = <<>>
    /\ reads = 0
    /\ stored = {}
    /\ sweep = NoSweep
    /\ exec = NoExec
    /\ table = NoTable
    /\ codec = NoCodec
    /\ memory = NoMemory

NextInfinity ==
    \/ CreateBoth
    \/ \E key \in Keys : InsertBoth(key, "long_padding")
    \/ \E search_option \in SearchModes : SearchBoth(search_option)

SpecInfinity == InitInfinity /\ [][NextInfinity]_vars

(***************************************************************************)
(* SpecIo: the tree over a pool of any size up to TreePoolSize and a       *)
(* storage whose reads and writes may fail: an insert is made with the     *)
(* fail-th storage call of the insert returning an error.                  *)
(***************************************************************************)
InsertIo(key, value, fail) ==
    LET r == insert(Begin(bufmgr, fail), btree.meta_page_id, key, value)
    IN  /\ btree # NoTree
        /\ r.res = "Ok" \/ reads < MaxReads
        /\ bufmgr' = End(r.bm)
        /\ reads' = IF r.res = "Ok" THEN reads ELSE reads + 1
        /\ inserted' = IF r.res = "Ok" THEN table_insert(inserted, key, value)
                       ELSE inserted
        /\ last' = [op |-> "insert", res |-> r.res, buf |-> NoBuffer,
                    key |-> key, value |-> value]
        /\ UNCHANGED <<written, btree, memory, codec, table, exec, sweep, infinity, stored>>

NextIo ==
    \/ Create
    \/ \E n \in 1 .. MaxSmallKey, value \in Values, fail \in 0 .. MaxFailAt :
           InsertIo(be_u64(n), value, fail)
    \/ \E search_option \in SearchModes : Search(search_option)

SpecIo == InitReopen /\ [][NextIo]_vars

(***************************************************************************)
(* The codec: memcmpable (rdbms/util/memcmpable.rs) and tuple              *)
(* (util/tuple.rs).  A byte is a number in 0 .. 255, a Vec<u8> a sequence  *)
(* of bytes, and an operator takes dst (or elems) as it is before the call *)
(* and returns it as it is after.                                          *)
(***************************************************************************)
ESCAPE_LENGTH == 9

min(a, b) == IF a < b THEN a ELSE b

\* dst.resize(dst.len() + pad_size, 0)
zeros(pad_size) == [i \in 1 .. pad_size |-> 0]

\* the encode that writes a chunk without its padding
RECURSIVE memcmpable_encode_unpadded(_, _)
memcmpable_encode_unpadded(src, dst) ==
    IF Len(src) <= ESCAPE_LENGTH - 1
    THEN dst \o src \o <<Len(src)>>
    ELSE memcmpable_encode_unpadded(
             SubSeq(src, ESCAPE_LENGTH, Len(src)),
             dst \o SubSeq(src, 1, ESCAPE_LENGTH - 1) \o <<ESCAPE_LENGTH>>)

\* memcmpable::encode: chunks of ESCAPE_LENGTH - 1 bytes, each followed by
\* ESCAPE_LENGTH when more follows, the last padded with zeros and followed
\* by the number of bytes it holds
RECURSIVE memcmpable_encode(_, _)
memcmpable_encode(src, dst) ==
    IF Len(src) <= ESCAPE_LENGTH - 1
    THEN dst \o src \o zeros(ESCAPE_LENGTH - 1 - Len(src)) \o <<Len(src)>>
    ELSE memcmpable_encode(
             SubSeq(src, ESCAPE_LENGTH, Len(src)),
             dst \o SubSeq(src, 1, ESCAPE_LENGTH - 1) \o <<ESCAPE_LENGTH>>)

\* the decode that takes the padding of the last chunk with its bytes
RECURSIVE memcmpable_decode_padded(_, _)
memcmpable_decode_padded(src, dst) ==
    IF Len(src) < ESCAPE_LENGTH THEN [res |-> "Panic", src |-> src, dst |-> dst]
    ELSE IF src[ESCAPE_LENGTH] < ESCAPE_LENGTH
    THEN [res |-> "Ok",
          src |-> SubSeq(src, ESCAPE_LENGTH + 1, Len(src)),
          dst |-> dst \o SubSeq(src, 1, ESCAPE_LENGTH - 1)]
    ELSE memcmpable_decode_padded(
             SubSeq(src, ESCAPE_LENGTH + 1, Len(src)),
             dst \o SubSeq(src, 1, ESCAPE_LENGTH - 1))

\* memcmpable::decode: src is advanced past the chunks read; an index past
\* the end of src panics
RECURSIVE memcmpable_decode(_, _)
memcmpable_decode(src, dst) ==
    IF Len(src) < ESCAPE_LENGTH THEN [res |-> "Panic", src |-> src, dst |-> dst]
    ELSE IF src[ESCAPE_LENGTH] < ESCAPE_LENGTH
    THEN [res |-> "Ok",
          src |-> SubSeq(src, ESCAPE_LENGTH + 1, Len(src)),
          dst |-> dst \o SubSeq(src, 1, min(ESCAPE_LENGTH - 1, src[ESCAPE_LENGTH]))]
    ELSE memcmpable_decode(
             SubSeq(src, ESCAPE_LENGTH + 1, Len(src)),
             dst \o SubSeq(src, 1, min(ESCAPE_LENGTH - 1, src[ESCAPE_LENGTH])))

\* tuple::encode
RECURSIVE tuple_encode(_, _)
tuple_encode(elems, bytes) ==
    IF elems = <<>> THEN bytes
    ELSE tuple_encode(Tail(elems), memcmpable_encode(Head(elems), bytes))

\* tuple::decode: rest is what is left of bytes, empty unless decode panicked
RECURSIVE tuple_decode(_, _)
tuple_decode(bytes, elems) ==
    IF bytes = <<>> THEN [res |-> "Ok", rest |-> bytes, elems |-> elems]
    ELSE Bind(memcmpable_decode(bytes, <<>>),
              LAMBDA d : IF d.res = "Panic"
                         THEN [res |-> "Panic", rest |-> d.src, elems |-> elems]
                         ELSE tuple_decode(d.src, Append(elems, d.dst)))

(***************************************************************************)
(* SpecCodec: two tuples are encoded, and the bytes of the first decoded.  *)
(***************************************************************************)
MaxElems == 2         \* a tuple has at most MaxElems elements

\* n bytes b
run(b, n) == [i \in 1 .. n |-> b]

\* the elements of the tuples: empty, of one byte, ending in a zero byte, and
\* of 8, 9, 16 and 17 bytes, one of them the beginning of the next
ByteStrings ==
    {<<>>, <<0>>, <<1>>, <<9>>, run(1, 8), run(1, 8) \o <<0>>, run(1, 9),
     run(1, 16), run(1, 17)}

Tuples == UNION {[1 .. n -> ByteStrings] : n \in 0 .. MaxElems}

EncodeTuples ==
    /\ codec.stage = "input"
    /\ codec' = [codec EXCEPT !.stage = "encoded",
                              !.bytes_a = tuple_encode(codec.a, <<>>),
                              !.bytes_b = tuple_encode(codec.b, <<>>)]
    /\ UNCHANGED <<bufmgr, last, written, btree, inserted, reads, memory, table, exec, sweep, infinity, stored>>

DecodeTuple ==
    /\ codec.stage = "encoded"
    /\ codec' = [codec EXCEPT !.stage = "decoded",
                              !.decoded = tuple_decode(codec.bytes_a, <<>>)]
    /\ UNCHANGED <<bufmgr, last, written, btree, inserted, reads, memory, table, exec, sweep, infinity, stored>>

InitCodec ==
    /\ \E a \in Tuples, b \in Tuples :
           codec = [stage |-> "input", a |-> a, b |-> b, bytes_a |-> <<>>,
                    bytes_b |-> <<>>,
                    decoded |-> [res |-> "None", rest |-> <<>>, elems |-> <<>>]]
    /\ bufmgr = NewManager(1, <<>>)
    /\ last = Did("new", "Ok", NoBuffer)
    /\ written = <<>>
    /\ btree = NoTree
    /\ inserted = <<>>
    /\ reads = 0
    /\ stored = {}
    /\ infinity = NoInfinity
    /\ sweep = NoSweep
    /\ exec = NoExec
    /\ table = NoTable
    /\ memory = NoMemory

NextCodec == EncodeTuples \/ DecodeTuple

SpecCodec == InitCodec /\ [][NextCodec]_vars

(***************************************************************************)
(* Table and UniqueIndex (rdbms/table.rs).  A record is a sequence of byte *)
(* strings; skey holds the (0-based) columns of the secondary key.         *)
(***************************************************************************)
\* UniqueIndex::create for the indices from the i-th on
RECURSIVE UniqueIndex_create(_, _, _)
UniqueIndex_create(bm, t, i) ==
    IF i > Len(t.unique_indices) THEN [res |-> "Ok", table |-> t, bm |-> bm]
    ELSE Bind(create(bm), LAMBDA r :
         IF r.res # "Ok" THEN [res |-> r.res, table |-> t, bm |-> r.bm]
         ELSE UniqueIndex_create(
                  r.bm, [t EXCEPT !.unique_indices[i].meta_page_id = r.meta_page_id], i + 1))

\* Table::create
Table_create(bm, t) ==
    Bind(create(bm), LAMBDA r :
    IF r.res # "Ok" THEN [res |-> r.res, table |-> t, bm |-> r.bm]
    ELSE UniqueIndex_create(r.bm, [t EXCEPT !.meta_page_id = r.meta_page_id], 1))

\* self.skey.iter().map(|&index| record[index].as_ref())
skey_of(unique_index, record) ==
    [i \in 1 .. Len(unique_index.skey) |-> record[unique_index.skey[i] + 1]]

\* UniqueIndex::insert
UniqueIndex_insert(bm, unique_index, pkey, record) ==
    insert(bm, unique_index.meta_page_id,
           tuple_encode(skey_of(unique_index, record), <<>>), pkey)

\* for unique_index in &self.unique_indices { unique_index.insert(..)? }
RECURSIVE UniqueIndex_insert_all(_, _, _, _, _)
UniqueIndex_insert_all(bm, t, key, record, i) ==
    IF i > Len(t.unique_indices) THEN [res |-> "Ok", bm |-> bm]
    ELSE Bind(UniqueIndex_insert(bm, t.unique_indices[i], key, record), LAMBDA r :
         IF r.res # "Ok" THEN r
         ELSE UniqueIndex_insert_all(r.bm, t, key, record, i + 1))

\* record[..self.num_key_elems]
pkey_of(t, record) == SubSeq(record, 1, t.num_key_elems)

\* Table::insert
Table_insert(bm, t, record) ==
    Bind(tuple_encode(pkey_of(t, record), <<>>), LAMBDA key :
    Bind(insert(bm, t.meta_page_id, key,
                tuple_encode(SubSeq(record, t.num_key_elems + 1, Len(record)), <<>>)),
         LAMBDA r :
    IF r.res # "Ok" THEN r
    ELSE UniqueIndex_insert_all(r.bm, t, key, record, 1)))

(***************************************************************************)
(* Plans and executors (rdbms/query.rs).  A closure is the record that     *)
(* names what it computes; a plan and an executor are records of the       *)
(* fields of their structs, with the accessor named by its meta_page_id.   *)
(***************************************************************************)
Always == [f |-> "true"]
Never == [f |-> "false"]
Eq(col, bytes) == [f |-> "eq", col |-> col, bytes |-> bytes]
Ne(col, bytes) == [f |-> "ne", col |-> col, bytes |-> bytes]
Lt(col, bytes) == [f |-> "lt", col |-> col, bytes |-> bytes]

\* (self.while_cond)(&pkey), (self.cond)(&tuple)
call(cond, tuple) ==
    IF cond.f = "true" THEN TRUE
    ELSE IF cond.f = "false" THEN FALSE
    ELSE IF cond.f = "eq" THEN tuple[cond.col + 1] = cond.bytes
    ELSE IF cond.f = "ne" THEN tuple[cond.col + 1] # cond.bytes
    ELSE cmp(tuple[cond.col + 1], cond.bytes) = "Less"

\* TupleSearchMode::encode
TupleSearchMode_encode(search_mode) ==
    IF search_mode.mode = "Start" THEN Start
    ELSE Key(tuple_encode(search_mode.key, <<>>))

SeqScan(table_accessor, search_mode, while_cond) ==
    [plan |-> "SeqScan", table_accessor |-> table_accessor,
     search_mode |-> search_mode, while_cond |-> while_cond]

Filter(inner_plan, cond) ==
    [plan |-> "Filter", inner_plan |-> inner_plan, cond |-> cond]

IndexScan(table_accessor, index_accessor, search_mode, while_cond) ==
    [plan |-> "IndexScan", table_accessor |-> table_accessor,
     index_accessor |-> index_accessor,
     search_mode |-> search_mode, while_cond |-> while_cond]

\* PlanNode::start
RECURSIVE start(_, _)
start(bm, plan) ==
    IF plan.plan = "SeqScan"
    THEN Bind(search(bm, plan.table_accessor, TupleSearchMode_encode(plan.search_mode)),
              LAMBDA s :
              [res |-> s.res, bm |-> s.bm,
               exec |-> IF s.res # "Ok" THEN NoExec
                        ELSE [exec |-> "SeqScan", table_iter |-> s.iter,
                              while_cond |-> plan.while_cond]])
    ELSE IF plan.plan = "Filter"
    THEN Bind(start(bm, plan.inner_plan), LAMBDA s :
              [res |-> s.res, bm |-> s.bm,
               exec |-> IF s.res # "Ok" THEN NoExec
                        ELSE [exec |-> "Filter", inner_iter |-> s.exec,
                              cond |-> plan.cond]])
    ELSE Bind(search(bm, plan.index_accessor, TupleSearchMode_encode(plan.search_mode)),
              LAMBDA s :
              [res |-> s.res, bm |-> s.bm,
               exec |-> IF s.res # "Ok" THEN NoExec
                        ELSE [exec |-> "IndexScan", table_btree |-> plan.table_accessor,
                              index_iter |-> s.iter, while_cond |-> plan.while_cond]])

\* tuple::decode(&bytes, &mut elems) of bytes that tuple::encode made
decode_into(bytes, elems) == tuple_decode(bytes, elems).elems

\* ExecSeqScan::next
ExecSeqScan_next(bm, e) ==
    Bind(next(bm, e.table_iter), LAMBDA n :
    Bind([e EXCEPT !.table_iter = n.iter], LAMBDA after :
    IF n.res # "Ok" \/ ~n.item.some
    THEN [res |-> n.res, item |-> None, exec |-> after, bm |-> n.bm]
    ELSE IF ~call(e.while_cond, decode_into(n.item.get.key, <<>>))
    THEN [res |-> "Ok", item |-> None, exec |-> after, bm |-> n.bm]
    ELSE [res |-> "Ok",
          item |-> Some(decode_into(n.item.get.value,
                                    decode_into(n.item.get.key, <<>>))),
          exec |-> after, bm |-> n.bm]))

\* the next that yields the secondary key and the primary key, as
\* ExecIndexOnlyScan does
ExecIndexScan_next_index_only(bm, e) ==
    Bind(next(bm, e.index_iter), LAMBDA n :
    Bind([e EXCEPT !.index_iter = n.iter], LAMBDA after :
    IF n.res # "Ok" \/ ~n.item.some
    THEN [res |-> n.res, item |-> None, exec |-> after, bm |-> n.bm]
    ELSE IF ~call(e.while_cond, decode_into(n.item.get.key, <<>>))
    THEN [res |-> "Ok", item |-> None, exec |-> after, bm |-> n.bm]
    ELSE [res |-> "Ok",
          item |-> Some(decode_into(n.item.get.value,
                                    decode_into(n.item.get.key, <<>>))),
          exec |-> after, bm |-> n.bm]))

\* ExecIndexScan::next: the table iterator is dropped when the call returns;
\* unwrap() of a None is a panic
ExecIndexScan_next(bm, e) ==
    Bind(next(bm, e.index_iter), LAMBDA n :
    Bind([e EXCEPT !.index_iter = n.iter], LAMBDA after :
    IF n.res # "Ok" \/ ~n.item.some
    THEN [res |-> n.res, item |-> None, exec |-> after, bm |-> n.bm]
    ELSE IF ~call(e.while_cond, decode_into(n.item.get.key, <<>>))
    THEN [res |-> "Ok", item |-> None, exec |-> after, bm |-> n.bm]
    ELSE
    Bind(search(n.bm, e.table_btree, Key(n.item.get.value)), LAMBDA s :
    IF s.res # "Ok" THEN [res |-> s.res, item |-> None, exec |-> after, bm |-> s.bm]
    ELSE
    Bind(next(s.bm, s.iter), LAMBDA t :
    IF t.res # "Ok"
    THEN [res |-> t.res, item |-> None, exec |-> after,
          bm |-> release_opt(t.bm, t.iter.buffer)]
    ELSE IF ~t.item.some
    THEN [res |-> "Panic", item |-> None, exec |-> after,
          bm |-> release_opt(t.bm, t.iter.buffer)]
    ELSE [res |-> "Ok",
          item |-> Some(decode_into(t.item.get.value,
                                    decode_into(t.item.get.key, <<>>))),
          exec |-> after, bm |-> release_opt(t.bm, t.iter.buffer)]))))

\* the filter that yields whatever its inner executor yields
RECURSIVE ExecFilter_next_unfiltered(_, _)
RECURSIVE Executor_next(_, _)
ExecFilter_next_unfiltered(bm, e) ==
    Bind(Executor_next(bm, e.inner_iter), LAMBDA n :
    [res |-> n.res, item |-> n.item,
     exec |-> [e EXCEPT !.inner_iter = n.exec], bm |-> n.bm])

\* ExecFilter::next
RECURSIVE ExecFilter_next(_, _)
ExecFilter_next(bm, e) ==
    Bind(Executor_next(bm, e.inner_iter), LAMBDA n :
    Bind([e EXCEPT !.inner_iter = n.exec], LAMBDA after :
    IF n.res # "Ok" \/ ~n.item.some
    THEN [res |-> n.res, item |-> None, exec |-> after, bm |-> n.bm]
    ELSE IF call(e.cond, n.item.get)
    THEN [res |-> "Ok", item |-> n.item, exec |-> after, bm |-> n.bm]
    ELSE ExecFilter_next(n.bm, after)))

\* Executor::next of a BoxExecutor
Executor_next(bm, e) ==
    IF e.exec = "SeqScan" THEN ExecSeqScan_next(bm, e)
    ELSE IF e.exec = "Filter" THEN ExecFilter_next(bm, e)
    ELSE ExecIndexScan_next(bm, e)

(***************************************************************************)
(* SpecQuery: the program of main.rs over a pool of TreePoolSize frames:   *)
(* the table with its unique index on the last column is created, records *)
(* are inserted, then one plan is started and next() is called on its     *)
(* executor.                                                               *)
(***************************************************************************)
MaxNexts == 5         \* next() is called at most MaxNexts times on the executor

\* the records inserted: primary key, first name, last name as in main.rs,
\* with names of one letter: (z, A, S), (x, B, J), (y, C, W), (w, D, M),
\* (v, E, B)
Records ==
    {<<<<122>>, <<65>>, <<83>>>>, <<<<120>>, <<66>>, <<74>>>>,
     <<<<121>>, <<67>>, <<87>>>>, <<<<119>>, <<68>>, <<77>>>>,
     <<<<118>>, <<69>>, <<66>>>>}

\* the conditions a scan is run with: pkey != x, pkey < y
Conds == {Always, Never, Ne(0, <<120>>), Lt(0, <<121>>)}

\* the plans started on a table t
Plans(t) ==
    {IndexScan(t.meta_page_id, t.unique_indices[1].meta_page_id,
               Key(skey_of(t.unique_indices[1], r)),
               Eq(0, skey_of(t.unique_indices[1], r)[1])) : r \in Records}
    \cup {SeqScan(t.meta_page_id, m, c) : m \in {Start, Key(<<<<120>>>>)}, c \in Conds}
    \cup {Filter(SeqScan(t.meta_page_id, Start, c), d) :
              c \in {Always, Ne(0, <<120>>)}, d \in {Never, Ne(2, <<74>>), Lt(1, <<67>>)}}

TableCreate ==
    LET r == Table_create(Begin(bufmgr, 0), table)
    IN  /\ last.op = "new"
        /\ bufmgr' = End(r.bm)
        /\ table' = r.table
        /\ last' = Did("create", r.res, NoBuffer)
        /\ UNCHANGED <<written, btree, inserted, reads, memory, codec, exec, sweep, infinity, stored>>

TableInsert(record) ==
    LET r == Table_insert(Begin(bufmgr, 0), table, record)
    IN  /\ last.op \in {"create", "insert"}
        /\ last.res = "Ok"
        /\ pkey_of(table, record) \notin DOMAIN inserted
        /\ bufmgr' = End(r.bm)
        /\ inserted' = IF r.res = "Ok"
                       THEN table_insert(inserted, pkey_of(table, record), record)
                       ELSE inserted
        /\ last' = [op |-> "insert", res |-> r.res, buf |-> NoBuffer, record |-> record]
        /\ UNCHANGED <<written, btree, reads, memory, codec, table, exec, sweep, infinity, stored>>

\* plan.start(&mut bufmgr)
StartPlan(plan) ==
    LET r == start(Begin(bufmgr, 0), plan)
    IN  /\ last.op \in {"create", "insert"}
        /\ last.res = "Ok"
        /\ bufmgr' = End(r.bm)
        /\ exec' = r.exec
        /\ last' = [op |-> "start", res |-> r.res, buf |-> NoBuffer, plan |-> plan,
                    results |-> <<>>, stopped_at |-> 0]
        /\ UNCHANGED <<written, btree, inserted, reads, memory, codec, table, sweep, infinity, stored>>

\* exec.next(&mut bufmgr); results is what the calls so far returned, and
\* stopped_at is the number of the first call at which a SeqScan returned
\* None for a pair of the table that its while_cond refused, 0 if none did
NextExec ==
    LET r == Executor_next(Begin(bufmgr, 0), exec)
    IN  /\ exec # NoExec
        /\ last.res = "Ok"
        /\ Len(last.results) < MaxNexts
        /\ bufmgr' = End(r.bm)
        /\ exec' = r.exec
        /\ last' = [op |-> "next", res |-> r.res, buf |-> NoBuffer, plan |-> last.plan,
                    results |-> Append(last.results, r.item),
                    stopped_at |->
                        IF /\ last.stopped_at = 0
                           /\ exec.exec = "SeqScan"
                           /\ r.res = "Ok"
                           /\ ~r.item.some
                           /\ next(Begin(bufmgr, 0), exec.table_iter).item.some
                        THEN Len(last.results) + 1
                        ELSE last.stopped_at]
        /\ UNCHANGED <<written, btree, inserted, reads, memory, codec, table, sweep, infinity, stored>>

InitQuery ==
    /\ bufmgr = NewManager(TreePoolSize, <<>>)
    /\ last = Did("new", "Ok", NoBuffer)
    /\ written = <<>>
    /\ btree = NoTree
    /\ inserted = <<>>
    /\ reads = 0
    /\ stored = {}
    /\ infinity = NoInfinity
    /\ sweep = NoSweep
    /\ memory = NoMemory
    /\ codec = NoCodec
    /\ table = [meta_page_id |-> 0, num_key_elems |-> 1,
                unique_indices |-> <<[meta_page_id |-> INVALID_PAGE_ID, skey |-> <<2>>]>>]
    /\ exec = NoExec

NextQuery ==
    \/ TableCreate
    \/ \E record \in Records : TableInsert(record)
    \/ \E plan \in Plans(table) : StartPlan(plan)
    \/ NextExec

SpecQuery == InitQuery /\ [][NextQuery]_vars

(***************************************************************************)
(* SpecTable: the table of main.rs with records whose primary key or last  *)
(* name may be taken already; an insert that returns an error is followed  *)
(* by further inserts.                                                     *)
(***************************************************************************)
\* the records of main.rs and (u, F, S), whose last name is that of (z, A, S)
TableRecords == Records \cup {<<<<117>>, <<70>>, <<83>>>>}

\* table.insert(&mut bufmgr, &record), whatever it returns
TableInsertAny(record) ==
    LET r == Table_insert(Begin(bufmgr, 0), table, record)
    IN  /\ last.op \in {"create", "insert"}
        /\ r.res = "Ok" \/ reads < MaxReads
        /\ bufmgr' = End(r.bm)
        /\ reads' = IF r.res = "Ok" THEN reads ELSE reads + 1
        /\ inserted' = IF r.res = "Ok"
                       THEN table_insert(inserted, pkey_of(table, record), record)
                       ELSE inserted
        /\ last' = [op |-> "insert", res |-> r.res, buf |-> NoBuffer, record |-> record]
        /\ UNCHANGED <<written, btree, memory, codec, table, exec, sweep, infinity, stored>>

NextTable ==
    \/ TableCreate
    \/ \E record \in TableRecords : TableInsertAny(record)

SpecTable == InitQuery /\ [][NextTable]_vars

(***************************************************************************)
(* Properties of the buffer pool.                                          *)
(***************************************************************************)
Buffers == bufmgr.pool.buffers

History == bufmgr.disk.history

Mapped == DOMAIN bufmgr.page_table

\* the most recent call reused a frame: it was a create_page or a fetch_page
\* miss that returned a buffer
Reloaded ==
    /\ last.op \in {"fetch_page", "create_page"}
    /\ last.res = "Ok"
    /\ History # <<>>

\* C5 (buffer pool identity): over a storage that does not fail, fetch_page(id)
\* of any page that went through the pool returns a buffer of page id whose
\* bytes are the bytes most recently given to that page (zero for a page that
\* was created and never overwritten), in every reachable state and for the
\* buffer the most recent fetch_page returned.
BufferPoolIdentity ==
    /\ \A page_id \in DOMAIN written :
           LET r == fetch_page(bufmgr, page_id)
           IN  r.res = "Ok" =>
                   /\ r.bm.pool.buffers[r.buf].page_id = page_id
                   /\ r.bm.pool.buffers[r.buf].page = written[page_id]
    /\ (last.op = "fetch_page" /\ last.res = "Ok") =>
           Buffers[last.buf].page = written[Buffers[last.buf].page_id]

\* a page that was overwritten, evicted and then read back from storage
BufferPoolIdentityWitness ==
    /\ last.op = "fetch_page"
    /\ Reloaded
    /\ Buffers[last.buf].page = FilledPage(FillByte)
    /\ written[Buffers[last.buf].page_id] = FilledPage(FillByte)

\* C6 (eviction safety): a frame with a live borrow has usage_count >= 1, the
\* sweep started in any reachable state neither chooses a frame with a live
\* borrow nor decrements its usage_count, and the frame the most recent call
\* reused has no holder but the caller.
EvictionSafety ==
    /\ \A b \in BufferIds(bufmgr) : pinned(bufmgr, b) => Buffers[b].usage_count >= 1
    /\ LET ev == evict(bufmgr)
       IN  /\ ev.victim # NoBuffer => ~pinned(bufmgr, ev.victim)
           /\ \A b \in BufferIds(bufmgr) :
                  pinned(bufmgr, b) =>
                      ev.bm.pool.buffers[b].usage_count = Buffers[b].usage_count
    /\ Reloaded => Buffers[last.buf].pins = 1

\* a frame was reused while the sweep had to pass another, pinned frame
EvictionSafetyWitness ==
    /\ Reloaded
    /\ bufmgr.pool.next_victim_id = last.buf
    /\ \E b \in BufferIds(bufmgr) : b # last.buf /\ pinned(bufmgr, b)

\* C7 (NoFreeBuffer exactly when fully pinned): in every reachable state
\* create_page, and fetch_page of an id that is not mapped, return NoFreeBuffer
\* if and only if every frame of the pool has a live borrow.
NoFreeBufferExact ==
    /\ create_page(bufmgr).res = "NoFreeBuffer" <=> AllPinned(bufmgr)
    /\ \A page_id \in (0 .. MaxPages) \ Mapped :
           fetch_page(bufmgr, page_id).res = "NoFreeBuffer" <=> AllPinned(bufmgr)
    /\ last.res = "NoFreeBuffer" => AllPinned(bufmgr)

\* pool size 1 with one live borrow: the second create_page failed
NoFreeBufferWitness ==
    /\ size(bufmgr) = 1
    /\ last.op = "create_page"
    /\ last.res = "NoFreeBuffer"
    /\ pinned(bufmgr, 0)

\* C8 (page-table agreement): the page table maps id to frame f if and only
\* if the buffer of frame f has page_id = id.
PageTableAgreement ==
    /\ \A page_id \in Mapped : Buffers[bufmgr.page_table[page_id]].page_id = page_id
    /\ \A b \in BufferIds(bufmgr) :
           Buffers[b].page_id # INVALID_PAGE_ID =>
               /\ Buffers[b].page_id \in Mapped
               /\ bufmgr.page_table[Buffers[b].page_id] = b

\* C9 (write-back ordering): a create_page or fetch_page miss that reuses a
\* frame issues, when the frame's buffer is dirty, one write of the old page id
\* with the old bytes and then the read of the new id (fetch) or the
\* allocation (create), and nothing else; when the buffer is clean or the
\* frame was never used it issues the read or the allocation alone.
WriteBackStep ==
    (/\ last'.op \in {"fetch_page", "create_page"}
     /\ last'.res = "Ok"
     /\ bufmgr'.disk.history # <<>>) =>
        LET old == Buffers[last'.buf]
            new_id == bufmgr'.pool.buffers[last'.buf].page_id
            what == IF last'.op = "fetch_page" THEN "Read" ELSE "Alloc"
        IN  /\ bufmgr'.disk.history =
                   (IF old.is_dirty THEN << <<"Write", old.page_id>> >> ELSE <<>>)
                       \o << <<what, new_id>> >>
            /\ old.is_dirty => bufmgr'.disk.heap_file[old.page_id + 1] = old.page

WriteBackOrdering == [][WriteBackStep]_vars

\* the trace of the create_page test: Write(old), Alloc(new)
WriteBackWitness ==
    /\ last.op = "create_page"
    /\ Len(History) = 2
    /\ History[1][1] = "Write"
    /\ History[2] = <<"Alloc", Buffers[last.buf].page_id>>

\* C10 (flush): flush issues one write for every page of the page table and
\* for no other page, then sync as its last storage call; when it returns Ok
\* no mapped frame is dirty; with an empty page table it issues sync alone.
FlushWritesAll ==
    last.op = "flush" =>
        LET n == Len(History)
        IN  /\ n = Cardinality(Mapped) + 1
            /\ History[n] = <<"Sync">>
            /\ \A page_id \in Mapped :
                   Cardinality({i \in 1 .. n - 1 : History[i] = <<"Write", page_id>>}) = 1
            /\ last.res = "Ok" =>
                   \A page_id \in Mapped : ~Buffers[bufmgr.page_table[page_id]].is_dirty

\* a flush of two mapped pages, one of them held by a caller
FlushWitness ==
    /\ last.op = "flush"
    /\ last.res = "Ok"
    /\ Cardinality(Mapped) = 2
    /\ \E page_id \in Mapped : pinned(bufmgr, bufmgr.page_table[page_id])
    /\ \E page_id \in Mapped : ~pinned(bufmgr, bufmgr.page_table[page_id])

\* C19 (NoFreeBuffer has no side effects): a create_page or fetch_page that
\* returns NoFreeBuffer performs no storage operation and leaves the heap
\* file, the page table and every frame (page id, bytes, dirty flag,
\* usage_count, holders) as they were; checked for the calls started in every
\* reachable state and for the trace of the most recent call.
NoFreeBufferNoEffect ==
    /\ \A r \in {create_page(Begin(bufmgr, 0))}
                  \cup {fetch_page(Begin(bufmgr, 0), page_id) :
                            page_id \in (0 .. MaxPages) \ Mapped} :
           r.res = "NoFreeBuffer" =>
               /\ r.bm.disk.history = <<>>
               /\ r.bm.disk.heap_file = bufmgr.disk.heap_file
               /\ r.bm.disk.next_page_id = bufmgr.disk.next_page_id
               /\ r.bm.page_table = bufmgr.page_table
               /\ r.bm.pool.buffers = Buffers
    /\ last.res = "NoFreeBuffer" => History = <<>>

\* a fetch_page of an evicted page failed while the only frame held a dirty page
NoFreeBufferNoEffectWitness ==
    /\ last.op = "fetch_page"
    /\ last.res = "NoFreeBuffer"
    /\ \E b \in BufferIds(bufmgr) : Buffers[b].is_dirty /\ pinned(bufmgr, b)
    /\ bufmgr.disk.next_page_id > Cardinality(Mapped)

\* C20 (fetch hit): fetch_page of a mapped id returns Ok with the buffer of
\* the frame the table names, even when every frame is pinned; it performs no
\* storage operation, leaves the bytes, the page id and the dirty flag of that
\* frame, the clock cursor, the page table and every other frame as they
\* were, and adds one to that frame's usage_count.
FetchHit ==
    \A page_id \in Mapped :
        LET b == bufmgr.page_table[page_id]
            r == fetch_page(Begin(bufmgr, 0), page_id)
        IN  /\ r.res = "Ok"
            /\ r.buf = b
            /\ r.bm.disk = Begin(bufmgr, 0).disk
            /\ r.bm.page_table = bufmgr.page_table
            /\ r.bm.pool.next_victim_id = bufmgr.pool.next_victim_id
            /\ r.bm.pool.buffers[b] =
                   [Buffers[b] EXCEPT !.usage_count = @ + 1, !.pins = @ + 1]
            /\ \A c \in BufferIds(bufmgr) \ {b} : r.bm.pool.buffers[c] = Buffers[c]

\* a hit on the one frame that was not pinned, after which every frame of a
\* two-frame pool is pinned
FetchHitWitness ==
    /\ last.op = "fetch_page"
    /\ last.res = "Ok"
    /\ History = <<>>
    /\ size(bufmgr) = 2
    /\ AllPinned(bufmgr)
    /\ Buffers[last.buf].usage_count = 1

\* C21 (create_page result): a create_page that returns Ok returns the buffer
\* of a frame whose page id is the id allocate_page returned (the storage's
\* next_page_id before the call), whose bytes are zero, whose dirty flag is
\* set and whose usage_count is 1; the page table maps that id to that frame
\* and to no other, and maps no other id to it: the page that was in the
\* frame is no longer mapped.  For the call started in every reachable state
\* and for the frame of the most recent create_page.
CreatePageResult ==
    /\ LET r == create_page(Begin(bufmgr, 0))
           id == bufmgr.disk.next_page_id
       IN  r.res = "Ok" =>
               /\ r.bm.disk.history[Len(r.bm.disk.history)] = <<"Alloc", id>>
               /\ r.bm.pool.buffers[r.buf].page_id = id
               /\ r.bm.pool.buffers[r.buf].page = ZeroPage
               /\ r.bm.pool.buffers[r.buf].is_dirty
               /\ r.bm.pool.buffers[r.buf].usage_count = 1
               /\ id \in DOMAIN r.bm.page_table /\ r.bm.page_table[id] = r.buf
               /\ \A other \in DOMAIN r.bm.page_table :
                      r.bm.page_table[other] = r.buf => other = id
               /\ Buffers[r.buf].page_id \notin DOMAIN r.bm.page_table
    /\ (last.op = "create_page" /\ last.res = "Ok") =>
           /\ Buffers[last.buf] =
                  [usage_count |-> 1, pins |-> 1, page_id |-> bufmgr.disk.next_page_id - 1,
                   page |-> ZeroPage, is_dirty |-> TRUE]
           /\ {page_id \in Mapped : bufmgr.page_table[page_id] = last.buf}
                  = {bufmgr.disk.next_page_id - 1}

\* a create_page that took over the frame of a page that had been overwritten
CreatePageResultWitness ==
    /\ last.op = "create_page"
    /\ last.res = "Ok"
    /\ Len(History) = 2
    /\ History[1][1] = "Write"
    /\ bufmgr.disk.heap_file[History[1][2] + 1] = FilledPage(FillByte)
    /\ History[1][2] \notin Mapped

(***************************************************************************)
(* Properties of the storage managers (SpecStorage).                       *)
(***************************************************************************)
\* the first id an instance gives out: the whole pages of the file it was made on
FirstIdOk ==
    /\ last.op \in {"new", "open"} =>
           bufmgr.disk.next_page_id = heap_file_size(bufmgr.disk.heap_file) \div PAGE_SIZE
    /\ (last.op = "new" /\ memory # NoMemory) => memory.next_page_id = 0

\* a step of one instance: allocate_page returns the counter and advances it
\* by one, on either manager; no other call moves the counter
FreshStep ==
    /\ last'.op = "allocate_page" =>
           /\ last'.disk = [res |-> "Ok", page_id |-> bufmgr.disk.next_page_id]
           /\ bufmgr'.disk.next_page_id = bufmgr.disk.next_page_id + 1
           /\ memory # NoMemory =>
                  /\ last'.memory = [res |-> "Ok", page_id |-> memory.next_page_id]
                  /\ memory'.next_page_id = memory.next_page_id + 1
    /\ last'.op \in {"write_page_data", "read_page_data", "sync"} =>
           /\ bufmgr'.disk.next_page_id = bufmgr.disk.next_page_id
           /\ memory' # NoMemory => memory'.next_page_id = memory.next_page_id

\* C22: within one instance allocate_page always succeeds and returns the
\* counter, which then goes up by one and is never moved by another call, so
\* the ids are consecutive, increasing and never given twice; the first is
\* file size / PAGE_SIZE for the DiskManager and 0 for the MemoryManager.
FreshPageIds == []FirstIdOk /\ [][FreshStep]_vars

\* the second instance, made on a file with a trailing partial page, gives
\* out the id after the whole pages
FreshPageIdsWitness ==
    /\ last.op = "allocate_page"
    /\ last.instance = 2
    /\ last.page_id = 1
    /\ bufmgr.disk.heap_file[Len(bufmgr.disk.heap_file)].kind = "partial"

\* C23: every page that was given bytes by a successful write_page_data reads
\* back exactly the bytes of the latest such write, whatever was written to
\* other pages since, on the DiskManager (also after the file was dropped
\* and reopened) and on the MemoryManager; the read just made returned them.
StorageRoundTrip ==
    /\ \A page_id \in DOMAIN written :
           /\ LET d == read_page_data(Begin(bufmgr, 0), page_id)
              IN  d.ok /\ d.data = written[page_id]
           /\ memory # NoMemory =>
                  LET m == memory_read_page_data(memory, page_id)
                  IN  m.res = "Ok" /\ m.data = written[page_id]
    /\ (last.op = "read_page_data" /\ last.page_id \in DOMAIN written) =>
           /\ last.disk = [res |-> "Ok", data |-> written[last.page_id]]
           /\ last.memory.res # "None" => last.memory = last.disk

\* pages 0 and 1 were written with different bytes, page 0 first, and page 0
\* is read back by the second instance
StorageRoundTripWitness ==
    /\ last.op = "read_page_data"
    /\ last.instance = 2
    /\ last.page_id = 0
    /\ DOMAIN written = {0, 1}
    /\ written[0] # written[1]
    /\ last.disk.data = written[0]

\* C24: every call made on a DiskManager started on an empty file and on a
\* MemoryManager, after the same calls on both, has the same outcome on
\* both: the same id, the same bytes read, the same success or error.
StorageVariantsAgree ==
    ("memory" \in DOMAIN last /\ last.memory.res # "None") => last.memory = last.disk

(***************************************************************************)
(* Properties of the codec (SpecCodec).                                    *)
(***************************************************************************)
\* <[Vec<u8>] as Ord>::cmp: the first element that differs decides, a proper
\* prefix is less
cmp_elems(A, B) ==
    LET D == {i \in 1 .. min(Len(A), Len(B)) : A[i] # B[i]}
    IN  IF D # {} THEN LET i == CHOOSE i \in D : \A j \in D : i <= j
                      IN  cmp(A[i], B[i])
        ELSE IF Len(A) < Len(B) THEN "Less"
        ELSE IF Len(A) > Len(B) THEN "Greater"
        ELSE "Equal"

\* C25: the byte comparison of the encodings of two tuples is the
\* element-wise comparison of the tuples.
OrderPreserved ==
    codec.stage \in {"encoded", "decoded"} =>
        cmp(codec.bytes_a, codec.bytes_b) = cmp_elems(codec.a, codec.b)

\* a tuple is less than the tuple that has it as a proper prefix, and an
\* element of 8 bytes is less than the same followed by a zero byte
OrderPreservedWitness ==
    /\ codec.stage = "encoded"
    /\ codec.a = <<run(1, 8)>>
    /\ codec.b = <<run(1, 8) \o <<0>>, <<>>>>
    /\ cmp(codec.bytes_a, codec.bytes_b) = "Less"

\* C26: decoding the encoding of a tuple gives the tuple, element by
\* element, and leaves nothing of the input.
CodecRoundTrip ==
    codec.stage = "decoded" =>
        codec.decoded = [res |-> "Ok", rest |-> <<>>, elems |-> codec.a]

\* an empty element and an element of 16 bytes come back as they were
CodecRoundTripWitness ==
    /\ codec.stage = "decoded"
    /\ codec.a = <<<<>>, run(1, 16)>>
    /\ Len(codec.bytes_a) = 3 * ESCAPE_LENGTH
    /\ codec.decoded.elems = codec.a

(***************************************************************************)
(* Properties of the executors (SpecQuery).                                *)
(***************************************************************************)
\* what n calls of next() on an executor return, after results
RECURSIVE next_times(_, _, _, _)
next_times(bm, e, n, results) ==
    IF n = 0 THEN results
    ELSE LET r == Executor_next(bm, e)
         IN  IF r.res # "Ok" THEN Append(results, [some |-> FALSE, res |-> r.res])
             ELSE next_times(r.bm, r.exec, n - 1, Append(results, r.item))

\* plan.start(bufmgr) and n calls of next() on its executor
results_of(bm, plan, n) ==
    LET s == start(bm, plan)
    IN  IF s.res # "Ok" THEN <<[some |-> FALSE, res |-> s.res]>>
        ELSE next_times(s.bm, s.exec, n, <<>>)

\* the table is created and no plan has been started
TableReady == last.op \in {"create", "insert"} /\ last.res = "Ok"

\* the IndexScan of main.rs for the secondary key of a record
IndexScanFor(record) ==
    IndexScan(table.meta_page_id, table.unique_indices[1].meta_page_id,
              Key(skey_of(table.unique_indices[1], record)),
              Eq(0, skey_of(table.unique_indices[1], record)[1]))

\* C27: for every record whose Table::insert returned Ok, the IndexScan
\* started with Key(its secondary key) and a while_cond that accepts that
\* secondary key only yields the record, then None; and so did the calls made
\* on the executor of such a plan.
IndexLookup ==
    /\ TableReady =>
           \A pkey \in DOMAIN inserted :
               results_of(Begin(bufmgr, 0), IndexScanFor(inserted[pkey]), 2)
                   = <<Some(inserted[pkey]), None>>
    /\ exec.exec = "IndexScan" =>
           \A pkey \in DOMAIN inserted :
               last.plan = IndexScanFor(inserted[pkey]) =>
                   /\ last.res = "Ok"
                   /\ Len(last.results) >= 1 => last.results[1] = Some(inserted[pkey])
                   /\ Len(last.results) >= 2 => last.results[2] = None

\* five records are stored, both trees have split, and the scan for the last
\* name S has yielded (z, A, S) and then None
IndexLookupWitness ==
    /\ exec.exec = "IndexScan"
    /\ Cardinality(DOMAIN inserted) = 5
    /\ last.results = <<Some(<<<<122>>, <<65>>, <<83>>>>), None>>

\* C28: once next() of a SeqScan executor has returned None for a pair whose
\* primary key while_cond refused, no later next() on the executor yields a
\* tuple.
SeqScanStops ==
    (exec.exec = "SeqScan" /\ last.stopped_at > 0) =>
        \A j \in 1 .. Len(last.results) :
            j > last.stopped_at => ~last.results[j].some

\* the tuples of results that satisfy cond, and the Nones, in order
filtered(results, cond) ==
    SelectSeq(results, LAMBDA r : ~r.some \/ call(cond, r.get))

IsPrefix(s1, s2) == Len(s1) <= Len(s2) /\ s1 = SubSeq(s2, 1, Len(s1))

\* what the inner executor of a Filter plan returns, for more calls than
\* MaxNexts calls of the Filter can make
InnerResults(bm, plan) ==
    results_of(bm, plan.inner_plan, 2 * MaxNexts + 1)

\* C29: for every Filter plan, the calls of next() return the tuples that the
\* inner executor yields and cond accepts, in the same order, and None where
\* the inner executor returns None; and the calls made on the executor of a
\* Filter plan returned the beginning of that sequence.
FilterSubsequence ==
    /\ TableReady =>
           \A plan \in Plans(table) :
               plan.plan = "Filter" =>
                   LET E == filtered(InnerResults(Begin(bufmgr, 0), plan), plan.cond)
                   IN  /\ Len(E) > MaxNexts
                       /\ results_of(Begin(bufmgr, 0), plan, Len(E)) = E
    /\ exec.exec = "Filter" =>
           /\ last.res = "Ok"
           /\ IsPrefix(last.results,
                       filtered(InnerResults(Begin(bufmgr, 0), last.plan), last.plan.cond))

\* the filter that refuses the last name J has skipped the record of x
\* between those of w and y, and returned None after that of z
FilterSubsequenceWitness ==
    /\ exec.exec = "Filter"
    /\ last.plan.cond = Ne(2, <<74>>)
    /\ Len(last.results) = 5
    /\ last.results[2] = Some(<<<<119>>, <<68>>, <<77>>>>)
    /\ last.results[3] = Some(<<<<121>>, <<67>>, <<87>>>>)
    /\ last.results[5] = None

(***************************************************************************)
(* Properties of the B+tree.                                               *)
(***************************************************************************)
\* the page as the next fetch_page would return it: the buffer of its frame,
\* or the page of the file when no frame holds it
PageNow(page_id) ==
    IF page_id \in Mapped THEN Buffers[bufmgr.page_table[page_id]].page
    ELSE bufmgr.disk.heap_file[page_id + 1]

RootPage == PageNow(PageNow(btree.meta_page_id).root_page_id)

\* the root is a branch over branches: leaves, a branch and the root have split
ThreeLevels ==
    /\ btree # NoTree
    /\ RootPage.kind = "branch"
    /\ PageNow(RootPage.right_child).kind = "branch"

\* search(search_option) and the first next() of its iterator
first_next(bm, search_option) ==
    LET s == search(bm, btree.meta_page_id, search_option)
        n == next(s.bm, s.iter)
    IN  IF s.res # "Ok" THEN [res |-> s.res, item |-> None]
        ELSE [res |-> n.res, item |-> n.item]

StoredPair(k) == [key |-> k, value |-> inserted[k]]

FullScan(bm) == scan(bm, btree.meta_page_id, Start)

\* C1 (completeness): in every reachable state of a created tree, for every
\* key k whose insert returned Ok, the first next() of search(Key(k)) yields
\* (k, v) with v the value of that insert; and the search most recently made
\* for such a key began with that pair.
Completeness ==
    btree # NoTree =>
        /\ \A k \in DOMAIN inserted :
               first_next(bufmgr, Key(k)) = [res |-> "Ok", item |-> Some(StoredPair(k))]
        /\ (/\ last.op = "search"
            /\ last.mode.mode = "Key"
            /\ last.mode.key \in DOMAIN inserted) =>
               /\ last.res = "Ok"
               /\ last.items # <<>>
               /\ last.items[1] = StoredPair(last.mode.key)

\* a search of a stored key in a tree of three levels, some of whose pages
\* had to be read back from the file
CompletenessWitness ==
    /\ ThreeLevels
    /\ last.op = "search"
    /\ last.mode.mode = "Key"
    /\ last.mode.key \in DOMAIN inserted
    /\ last.items[1] = StoredPair(last.mode.key)
    /\ \E i \in DOMAIN History : History[i][1] = "Read"

\* C2 (order): in every reachable state of a created tree, next() called on
\* the iterator of search(Start) until it returns None yields every inserted
\* key exactly once, in strictly ascending byte order, each with its value.
AscendingOnce(items) ==
    /\ \A i \in 1 .. Len(items) - 1 : cmp(items[i].key, items[i + 1].key) = "Less"
    /\ Len(items) = Cardinality(DOMAIN inserted)
    /\ \A k \in DOMAIN inserted : \E i \in DOMAIN items : items[i] = StoredPair(k)

ScanOrder ==
    btree # NoTree =>
        /\ LET r == FullScan(bufmgr) IN r.res = "Ok" /\ AscendingOnce(r.items)
        /\ (last.op = "search" /\ last.mode = Start) =>
               last.res = "Ok" /\ AscendingOnce(last.items)

\* a full scan of MaxKey keys over a tree of three levels
ScanOrderWitness ==
    /\ ThreeLevels
    /\ last.op = "search"
    /\ last.mode = Start
    /\ Len(last.items) = MaxKey

\* C3 (lower bound): for every search key k, stored or not, the first next()
\* of search(Key(k)) returns the pair of the smallest stored key >= k, and
\* None only if no stored key is >= k.
AtLeast(k) == {s \in DOMAIN inserted : cmp(s, k) # "Less"}

LowerBound ==
    btree # NoTree =>
        \A k \in Keys :
            LET r == first_next(bufmgr, Key(k))
            IN  /\ r.res = "Ok"
                /\ r.item.some <=> AtLeast(k) # {}
                /\ r.item.some =>
                       /\ r.item.get.key \in AtLeast(k)
                       /\ \A s \in AtLeast(k) : cmp(s, r.item.get.key) # "Less"
                       /\ r.item.get = StoredPair(r.item.get.key)

\* C4 (duplicate rejection): in every reachable state, insert(k, v2) of a key
\* k whose insert succeeded returns DuplicateKey, allocates no page, marks no
\* page dirty that was not dirty, and leaves search(Key(k)) and the
\* search(Start) sequence as they were; and the most recent rejected insert
\* left the inserted pair in place.
DirtyPages(bm) ==
    {bm.pool.buffers[b].page_id : b \in {f \in BufferIds(bm) : bm.pool.buffers[f].is_dirty}}

DuplicateRejected ==
    btree # NoTree =>
        /\ \A k \in DOMAIN inserted, v2 \in Values :
               LET r == insert(Begin(bufmgr, 0), btree.meta_page_id, k, v2)
               IN  /\ r.res = "DuplicateKey"
                   /\ first_next(r.bm, Key(k)).item = Some(StoredPair(k))
                   /\ FullScan(r.bm).items = FullScan(bufmgr).items
                   /\ r.bm.disk.next_page_id = bufmgr.disk.next_page_id
                   /\ \A i \in DOMAIN r.bm.disk.history : r.bm.disk.history[i][1] # "Alloc"
                   /\ DirtyPages(r.bm) \subseteq DirtyPages(bufmgr)
        /\ (last.op = "insert" /\ last.res = "DuplicateKey") =>
               /\ last.key \in DOMAIN inserted
               /\ \A i \in DOMAIN History : History[i][1] # "Alloc"

\* a rejected insert of another value for a key stored in a leaf below a branch
DuplicateRejectedWitness ==
    /\ last.op = "insert"
    /\ last.res = "DuplicateKey"
    /\ last.value # inserted[last.key]
    /\ RootPage.kind = "branch"

\* the page of page_id as fetch_page of manager bm would return it
PageIn(bm, page_id) ==
    IF page_id \in DOMAIN bm.page_table THEN bm.pool.buffers[bm.page_table[page_id]].page
    ELSE bm.disk.heap_file[page_id + 1]

\* the number of nodes on the path from node page_id down to a leaf
RECURSIVE Levels(_, _)
Levels(bm, page_id) ==
    IF PageIn(bm, page_id).kind = "leaf" THEN 1
    ELSE 1 + Levels(bm, PageIn(bm, page_id).right_child)

\* the height of the tree: 1 when the root is a leaf
Height == Levels(bufmgr, PageNow(btree.meta_page_id).root_page_id)

\* C12 (pin discipline): during BTree::insert at most (tree height + 2) frames
\* are pinned at one time; the height is taken after the insert, which is the
\* larger one when the root has split.
PinDiscipline ==
    (btree # NoTree /\ last.op = "insert") => bufmgr.peak <= Height + 2

\* the calls of next() on an iterator up to and including the first that does
\* not return a pair; the iterator is kept
RECURSIVE until_none(_, _)
until_none(bm, iter) ==
    Bind(next(bm, iter), LAMBDA n :
    IF n.res # "Ok" \/ ~n.item.some THEN n ELSE until_none(n.bm, n.iter))

\* the next() that follows the first None of the iterator of search(search_option)
after_none(bm, search_option) ==
    Bind(search(bm, btree.meta_page_id, search_option), LAMBDA s :
    Bind(until_none(s.bm, s.iter), LAMBDA e : next(e.bm, e.iter)))

\* C15 (an exhausted iterator is dead): in every reachable state of a created
\* tree and for every search option, the next() made after the first next()
\* that returned Ok(None) returns Ok(None) as well.
ExhaustedIsDead ==
    btree # NoTree =>
        \A search_option \in SearchModes :
            after_none(bufmgr, search_option).item = None

\* the pages that have been allocated
Allocated(bm) == 0 .. bm.disk.next_page_id - 1

\* the allocated pages that are leaves
LeafIds(bm) == {p \in Allocated(bm) : PageIn(bm, p).kind = "leaf"}

\* the leaf reached from node page_id by descending to child 0
RECURSIVE Leftmost(_, _)
Leftmost(bm, page_id) ==
    IF PageIn(bm, page_id).kind = "leaf" THEN page_id
    ELSE Leftmost(bm, child_at(PageIn(bm, page_id), 0))

\* the leaves met by following next_page_id from page_id, at most n of them
RECURSIVE ChainFrom(_, _, _)
ChainFrom(bm, page_id, n) ==
    IF page_id = INVALID_PAGE_ID \/ n = 0 THEN <<>>
    ELSE <<page_id>> \o ChainFrom(bm, PageIn(bm, page_id).next_page_id, n - 1)

\* prev and next of the leaves of bm are mutual
ChainMutual(bm) ==
    \A l \in LeafIds(bm) :
        /\ PageIn(bm, l).prev_page_id # INVALID_PAGE_ID =>
               /\ PageIn(bm, l).prev_page_id \in LeafIds(bm)
               /\ PageIn(bm, PageIn(bm, l).prev_page_id).next_page_id = l
        /\ PageIn(bm, l).next_page_id # INVALID_PAGE_ID =>
               /\ PageIn(bm, l).next_page_id \in LeafIds(bm)
               /\ PageIn(bm, PageIn(bm, l).next_page_id).prev_page_id = l

\* the leaves of bm, whose meta page is meta_page_id, form one doubly-linked
\* chain from the leftmost leaf
ChainOk(bm, meta_page_id) ==
    LET leaves == LeafIds(bm)
        first == Leftmost(bm, PageIn(bm, meta_page_id).root_page_id)
        chain == ChainFrom(bm, first, Cardinality(leaves) + 1)
    IN  /\ ChainMutual(bm)
        /\ {l \in leaves : PageIn(bm, l).prev_page_id = INVALID_PAGE_ID} = {first}
        /\ Len(chain) = Cardinality(leaves)
        /\ {chain[i] : i \in DOMAIN chain} = leaves

\* C16 (leaf chain integrity): in every reachable state of a created tree,
\* L.prev = P implies P.next = L and L.next = R implies R.prev = L, the
\* leftmost leaf is the only leaf without a previous leaf, and following
\* next_page_id from it visits every leaf exactly once and ends at the leaf
\* without a next leaf.
LeafChainIntegrity == btree # NoTree => ChainOk(bufmgr, btree.meta_page_id)

\* the most recent insert split a leaf that had a previous leaf: the new leaf
\* stands between two leaves
LeafChainWitness ==
    /\ btree # NoTree
    /\ last.op = "insert"
    /\ last.res = "Ok"
    /\ History = << <<"Alloc", bufmgr.disk.next_page_id - 1>> >>
    /\ PageNow(bufmgr.disk.next_page_id - 1).kind = "leaf"
    /\ PageNow(bufmgr.disk.next_page_id - 1).prev_page_id # INVALID_PAGE_ID
    /\ PageNow(bufmgr.disk.next_page_id - 1).next_page_id # INVALID_PAGE_ID

\* meta.root_page_id as a fetch of the meta page by manager bm would show it
RootIdIn(bm) == PageIn(bm, btree.meta_page_id).root_page_id

\* the meta page names an allocated page that is a leaf or a branch
RootValid ==
    btree # NoTree =>
        /\ PageNow(btree.meta_page_id).kind = "meta"
        /\ RootIdIn(bufmgr) \in Allocated(bufmgr)
        /\ PageNow(RootIdIn(bufmgr)).kind \in {"leaf", "branch"}

\* the meta page id of a created tree stays, and root_page_id changes only in an
\* insert that returned Ok and made a newly allocated branch, whose right child
\* is the old root and whose only pair leads to a newly allocated sibling, the root
RootStep ==
    btree # NoTree =>
        /\ btree' = btree
        /\ RootIdIn(bufmgr') # RootIdIn(bufmgr) =>
               /\ last'.op = "insert"
               /\ last'.res = "Ok"
               /\ RootIdIn(bufmgr') \in Allocated(bufmgr') \ Allocated(bufmgr)
               /\ PageIn(bufmgr', RootIdIn(bufmgr')).kind = "branch"
               /\ PageIn(bufmgr', RootIdIn(bufmgr')).right_child = RootIdIn(bufmgr)
               /\ num_pairs(PageIn(bufmgr', RootIdIn(bufmgr'))) = 1
               /\ child_at(PageIn(bufmgr', RootIdIn(bufmgr')), 0)
                      \in Allocated(bufmgr') \ Allocated(bufmgr)

\* C17 (root pointer validity): in every state between operations the meta
\* page's root_page_id names an allocated page initialised as a leaf or a
\* branch; the meta page id never changes once the tree is created; and
\* root_page_id changes only in an insert whose root node split.
RootPointer == []RootValid /\ [][RootStep]_vars

\* the most recent insert split a root that was a branch
RootPointerWitness ==
    /\ ThreeLevels
    /\ last.op = "insert"
    /\ last.res = "Ok"
    /\ RootIdIn(bufmgr) = bufmgr.disk.next_page_id - 1
    /\ \E i \in DOMAIN History : History[i] = <<"Alloc", RootIdIn(bufmgr)>>

\* the keys of every leaf and branch of bm are strictly ascending
NodesSorted(bm) ==
    \A p \in Allocated(bm) :
        PageIn(bm, p).kind \in {"leaf", "branch"} =>
            \A i \in 1 .. num_pairs(PageIn(bm, p)) - 1 :
                cmp(PageIn(bm, p).pairs[i].key, PageIn(bm, p).pairs[i + 1].key) = "Less"

\* the structure of the tree whose meta page is meta_page_id, as manager bm
\* shows it: a meta page naming an allocated leaf or branch, sorted nodes and
\* one chain of leaves
TreeOk(bm, meta_page_id) ==
    /\ PageIn(bm, meta_page_id).kind = "meta"
    /\ PageIn(bm, meta_page_id).root_page_id \in Allocated(bm)
    /\ PageIn(bm, PageIn(bm, meta_page_id).root_page_id).kind \in {"leaf", "branch"}
    /\ NodesSorted(bm)
    /\ ChainOk(bm, meta_page_id)

\* search(Start) over manager bm yields the inserted pairs in key order and
\* the tree is sound
SameTree(bm) ==
    /\ scan(bm, btree.meta_page_id, Start).res = "Ok"
    /\ AscendingOnce(scan(bm, btree.meta_page_id, Start).items)
    /\ TreeOk(bm, btree.meta_page_id)

OneFramePool ==
    size(bufmgr) = 1 =>
        /\ last.op \in {"create", "insert", "search"} => last.res # "NoFreeBuffer"
        /\ (last.op = "search" /\ last.mode = Start) => AscendingOnce(last.items)

\* C14 (iterator leaf hand-off): the iteration of search(Start) returns Ok at
\* every step, whatever the pool size, and skips no pair: next() does not
\* need a second frame to move from a leaf to the next.
IteratorHandOff ==
    (btree # NoTree /\ last.op = "search" /\ last.mode = Start) =>
        /\ last.res = "Ok"
        /\ AscendingOnce(last.items)

\* the keys of items are strictly ascending
StrictlyAscending(items) ==
    \A i \in 1 .. Len(items) - 1 : cmp(items[i].key, items[i + 1].key) = "Less"

\* every child of a branch, and the root, is an allocated leaf or branch
Typed(bm, meta_page_id) ==
    /\ PageIn(bm, meta_page_id).kind = "meta"
    /\ PageIn(bm, meta_page_id).root_page_id \in Allocated(bm)
    /\ PageIn(bm, PageIn(bm, meta_page_id).root_page_id).kind \in {"leaf", "branch"}
    /\ \A p \in Allocated(bm) :
           PageIn(bm, p).kind = "branch" =>
               \A c \in {PageIn(bm, p).right_child}
                          \cup {PageIn(bm, p).pairs[i].value : i \in DOMAIN PageIn(bm, p).pairs} :
                   /\ c \in Allocated(bm)
                   /\ PageIn(bm, c).kind \in {"leaf", "branch"}

\* search(Start) and at most n calls of next(): res is "More" when none of them
\* returned None
RECURSIVE drain_within(_, _, _, _)
drain_within(bm, iter, items, n) ==
    IF n = 0 THEN [res |-> "More", items |-> items, bm |-> release(bm, iter.buffer)]
    ELSE Bind(next(bm, iter), LAMBDA nx :
         IF nx.res # "Ok" \/ ~nx.item.some
         THEN [res |-> nx.res, items |-> items, bm |-> release(nx.bm, nx.iter.buffer)]
         ELSE drain_within(nx.bm, nx.iter, Append(items, nx.item.get), n - 1))

scan_within(bm, meta_page_id, n) ==
    Bind(search(bm, meta_page_id, Start), LAMBDA s :
    IF s.res # "Ok" THEN [res |-> s.res, items |-> <<>>, bm |-> s.bm]
    ELSE drain_within(s.bm, s.iter, <<>>, n))

\* C18 (failure leaves the tree structurally sound): in every state of a
\* created tree, whatever inserts have returned an error of the pool (a
\* storage error or NoFreeBuffer), the keys of every node are sorted, the leaf
\* chain is consistent, root_page_id is valid, and the iteration of
\* search(Start) yields keys in strictly ascending order and ends.
FailureSound ==
    btree # NoTree =>
        /\ Typed(bufmgr, btree.meta_page_id)
        /\ NodesSorted(bufmgr)
        /\ ChainMutual(bufmgr)
        /\ scan_within(bufmgr, btree.meta_page_id, MaxKey + 1).res # "More"
        /\ StrictlyAscending(scan_within(bufmgr, btree.meta_page_id, MaxKey + 1).items)

\* the keys stored in the subtree of node page_id: the keys of its leaves and
\* the separators of its branches
RECURSIVE SubtreeKeys(_)
SubtreeKeys(page_id) ==
    LET node == PageNow(page_id)
    IN  IF node.kind = "leaf" THEN {node.pairs[i].key : i \in 1 .. num_pairs(node)}
        ELSE {node.pairs[i].key : i \in 1 .. num_pairs(node)}
             \cup UNION {SubtreeKeys(child_at(node, i)) : i \in 0 .. num_pairs(node)}

\* the allocated pages that are branches now
BranchIds == {p \in Allocated(bufmgr) : PageNow(p).kind = "branch"}

\* C30 (branch ordering): in every reachable state of a created tree, for every
\* branch and every separator i of it, every key in the subtree of child i is
\* less than the separator, every key in the subtree of child i + 1 is greater
\* than or equal to it, and the descent for the separator takes child i + 1.
BranchOrdering ==
    btree # NoTree =>
        \A p \in BranchIds :
            \A i \in 0 .. num_pairs(PageNow(p)) - 1 :
                LET branch == PageNow(p)
                    separator == pair_at(branch, i).key
                IN  /\ \A k \in SubtreeKeys(child_at(branch, i)) :
                           cmp(k, separator) = "Less"
                    /\ \A k \in SubtreeKeys(child_at(branch, i + 1)) :
                           cmp(k, separator) # "Less"
                    /\ search_child_idx(branch, separator) = i + 1
                    /\ search_child(branch, separator) = child_at(branch, i + 1)

\* the root is a branch over two branches, and the separator of the root is
\* the first key of a leaf of its right subtree
BranchOrderingWitness ==
    /\ btree # NoTree
    /\ RootPage.kind = "branch"
    /\ PageNow(RootPage.right_child).kind = "branch"
    /\ Cardinality(BranchIds) = 3
    /\ \E l \in LeafIds(bufmgr) :
           /\ num_pairs(PageNow(l)) > 0
           /\ pair_at(PageNow(l), 0).key = pair_at(RootPage, 0).key
           /\ pair_at(RootPage, 0).key \in SubtreeKeys(RootPage.right_child)

\* the leaves reached from node page_id through its child pointers from the
\* i-th on, left to right
RECURSIVE LeavesUnder(_, _)
LeavesUnder(page_id, i) ==
    LET node == PageNow(page_id)
    IN  IF node.kind = "leaf" THEN <<page_id>>
        ELSE IF i > num_pairs(node) THEN <<>>
        ELSE LeavesUnder(child_at(node, i), 0) \o LeavesUnder(page_id, i + 1)

\* the child pointers of the branches: (branch, index of the child)
ChildPointers == {<<p, i>> \in BranchIds \X (0 .. BranchCap) : i <= num_pairs(PageNow(p))}

\* C31 (split propagation): in every reachable state of a created tree the
\* leaves reached from the root through the child pointers, left to right, are
\* the leaves of the sibling chain in the same order and are all the leaves;
\* every branch has one more child than separators, all of them allocated
\* nodes; and every node but the root is the child of exactly one pointer.
SplitPropagation ==
    btree # NoTree =>
        LET reached == LeavesUnder(RootIdIn(bufmgr), 0)
        IN  /\ reached = ChainFrom(bufmgr, reached[1], Cardinality(LeafIds(bufmgr)) + 1)
            /\ {reached[i] : i \in DOMAIN reached} = LeafIds(bufmgr)
            /\ Len(reached) = Cardinality(LeafIds(bufmgr))
            /\ \A p \in BranchIds :
                   /\ num_pairs(PageNow(p)) >= 1
                   /\ \A i \in 0 .. num_pairs(PageNow(p)) :
                          child_at(PageNow(p), i) \in LeafIds(bufmgr) \cup BranchIds
                   /\ Cardinality({child_at(PageNow(p), i) : i \in 0 .. num_pairs(PageNow(p))})
                          = num_pairs(PageNow(p)) + 1
            /\ Cardinality(ChildPointers) = Cardinality(LeafIds(bufmgr) \cup BranchIds) - 1

\* the most recent insert split a leaf, the branch above it and the root: three
\* pages were allocated and the tree has three levels
SplitPropagationWitness ==
    /\ btree # NoTree
    /\ last.op = "insert"
    /\ last.res = "Ok"
    /\ Cardinality({i \in DOMAIN History : History[i][1] = "Alloc"}) = 3
    /\ Height = 3
    /\ Cardinality(BranchIds) = 3

\* the keys of a leaf
KeysOf(leaf) == {leaf.pairs[i].key : i \in 1 .. num_pairs(leaf)}

\* new leaf W stands between P (or nothing) and S in manager bm, with smaller keys
SplitLeft(bm, P, W, S) ==
    /\ PageIn(bm, W).kind = "leaf"
    /\ PageIn(bm, S).kind = "leaf"
    /\ PageIn(bm, W).prev_page_id = P
    /\ PageIn(bm, W).next_page_id = S
    /\ PageIn(bm, S).prev_page_id = W
    /\ P # INVALID_PAGE_ID => PageIn(bm, P).next_page_id = W
    /\ \A kw \in KeysOf(PageIn(bm, W)), ks \in KeysOf(PageIn(bm, S)) : cmp(kw, ks) = "Less"

\* the leaf arm of insert_internal on the leaf that search(Key(key)) ends at,
\* with the page id of that leaf
leaf_arm(bm, key, value) ==
    LET s == search(bm, btree.meta_page_id, Key(key))
    IN  [S |-> page_id_of(s.bm, s.iter.buffer),
         r |-> insert_leaf(s.bm, s.iter.buffer, key, value)]

\* the page allocated first by the most recent call
FirstAlloc ==
    History[CHOOSE i \in DOMAIN History :
                /\ History[i][1] = "Alloc"
                /\ \A j \in 1 .. i - 1 : History[j][1] # "Alloc"][2]

\* C32 (leaf split goes left): in every reachable state of a created tree and
\* for every key not stored and every value, when the leaf arm of
\* insert_internal on the leaf S of the key returns an overflow, the page W it
\* names is a new leaf with P.next = W, W.prev = P, W.next = S, S.prev = W for
\* the P that was before S, every key of W is smaller than every key of S, the
\* pairs of W and S are those of S and the new pair, and the overflow key is
\* the smallest key of S; and the insert most recently made that allocated a
\* page left its new leaf linked that way, with the new pair in W or S.
LeafSplitLeft ==
    btree # NoTree =>
        /\ \A key \in Keys \ DOMAIN inserted, value \in Values :
               LET a == leaf_arm(Begin(bufmgr, 0), key, value)
                   W == a.r.overflow.page_id
               IN  (a.r.res = "Ok" /\ a.r.overflow.some) =>
                       /\ W = bufmgr.disk.next_page_id
                       /\ SplitLeft(a.r.bm, PageNow(a.S).prev_page_id, W, a.S)
                       /\ PageIn(a.r.bm, W).pairs \o PageIn(a.r.bm, a.S).pairs
                              = SubSeq(PageNow(a.S).pairs, 1,
                                       search_slot_id(PageNow(a.S), key).idx)
                                \o <<[key |-> key, value |-> value]>>
                                \o SubSeq(PageNow(a.S).pairs,
                                          search_slot_id(PageNow(a.S), key).idx + 1,
                                          num_pairs(PageNow(a.S)))
                       /\ num_pairs(PageIn(a.r.bm, a.S)) > 0
                       /\ a.r.overflow.key = pair_at(PageIn(a.r.bm, a.S), 0).key
        /\ (/\ last.op = "insert"
            /\ last.res = "Ok"
            /\ \E i \in DOMAIN History : History[i][1] = "Alloc") =>
               /\ SplitLeft(bufmgr, PageNow(FirstAlloc).prev_page_id, FirstAlloc,
                            PageNow(FirstAlloc).next_page_id)
               /\ last.key \in KeysOf(PageNow(FirstAlloc))
                               \cup KeysOf(PageNow(PageNow(FirstAlloc).next_page_id))

\* the most recent insert split a leaf that had a previous leaf, and its pair
\* went to the new leaf
LeafSplitLeftWitness ==
    /\ btree # NoTree
    /\ last.op = "insert"
    /\ last.res = "Ok"
    /\ \E i \in DOMAIN History : History[i][1] = "Alloc"
    /\ PageNow(FirstAlloc).prev_page_id # INVALID_PAGE_ID
    /\ last.key \in KeysOf(PageNow(FirstAlloc))

\* the number of frames the sweep steps over, from the cursor, to stand on frame b
offset(bm, b) == (b + size(bm) - bm.pool.next_victim_id) % size(bm)

\* the frames the sweep can stop at: those it finds at zero and those it may decrement
Candidates(bm) ==
    {b \in BufferIds(bm) : bm.pool.buffers[b].usage_count = 0 \/ ~pinned(bm, b)}

\* the number of frames passed before frame b is reached with usage_count = 0
reach(bm, b) == offset(bm, b) + bm.pool.buffers[b].usage_count * size(bm)

\* the candidate reached first
first_zero(bm) ==
    CHOOSE b \in Candidates(bm) : \A c \in Candidates(bm) : reach(bm, b) <= reach(bm, c)

\* the number of times frame b is passed before n frames have been passed
passes(bm, b, n) ==
    Cardinality({k \in 0 .. n : offset(bm, b) + k * size(bm) < n})

\* C33 (clock-sweep victim selection): in every reachable state of the pool,
\* evict scanning cyclically from next_victim_id returns the frame that is
\* first reached with usage_count = 0, leaves next_victim_id on that frame,
\* has taken one from the usage_count of an unpinned frame for each time it
\* passed it and has left every pinned frame and everything but usage counts
\* and the cursor as they were; and after a call that reused a frame the
\* cursor stands on the frame that call returned.
SweepSelection ==
    /\ LET r == evict(bufmgr)
           n == reach(bufmgr, r.victim)
       IN  Candidates(bufmgr) # {} =>
               /\ r.victim = first_zero(bufmgr)
               /\ r.bm.pool.next_victim_id = r.victim
               /\ r.bm.pool.buffers[r.victim].usage_count = 0
               /\ \A b \in BufferIds(bufmgr) :
                      r.bm.pool.buffers[b] =
                          IF pinned(bufmgr, b) THEN Buffers[b]
                          ELSE [Buffers[b] EXCEPT
                                   !.usage_count = @ - passes(bufmgr, b, n)]
               /\ r.bm = [bufmgr EXCEPT !.pool = r.bm.pool]
    /\ Reloaded => bufmgr.pool.next_victim_id = last.buf

\* after a frame was reused and another released, a sweep from here passes a
\* pinned frame twice and decrements the other frame before it returns it
SweepSelectionWitness ==
    /\ last.op = "release"
    /\ size(bufmgr) = 2
    /\ pinned(bufmgr, bufmgr.pool.next_victim_id)
    /\ Buffers[bufmgr.pool.next_victim_id].usage_count > 0
    /\ LET r == evict(bufmgr)
       IN  /\ r.victim # NoBuffer
           /\ r.victim # bufmgr.pool.next_victim_id
           /\ Buffers[r.victim].usage_count > 0

\* C34 (sweep termination): a call of evict started in any reachable state of
\* the pool returns; what it returns and the pool it leaves are those of
\* evict, it returns a victim exactly when some frame is unpinned, and it
\* returns None only with pool_size consecutive pinned frames counted.
SweepTerminates ==
    /\ [](sweep.pc = "returned" =>
            /\ [victim |-> sweep.victim, bm |-> sweep.bm] = evict(bufmgr)
            /\ sweep.victim # NoBuffer <=> ~AllPinned(bufmgr)
            /\ sweep.victim # NoBuffer => sweep.bm.pool.buffers[sweep.victim].usage_count = 0
            /\ sweep.victim = NoBuffer => sweep.consecutive_pinned = size(bufmgr))
    /\ (sweep.pc = "loop") ~> (sweep.pc = "returned")

\* evict has returned a frame that it had to decrement, after passing a pinned frame
SweepTerminatesWitness ==
    /\ sweep.pc = "returned"
    /\ sweep.victim # NoBuffer
    /\ Buffers[sweep.victim].usage_count > 0
    /\ \E b \in BufferIds(bufmgr) : pinned(bufmgr, b)

\* the pages of the file as manager bm holds them
PagesIn(bm) == [p \in Allocated(bm) |-> PageIn(bm, p)]

\* the holders of every frame of bm
PinsIn(bm) == [b \in BufferIds(bm) |-> bm.pool.buffers[b].pins]

\* what a caller sees of the tree through manager bm: the outcome and pairs of
\* search(Start) and, for every inserted key, of the first next() of search(Key)
Seen(bm) ==
    [start |-> [res |-> scan_within(Begin(bm, 0), btree.meta_page_id, MaxKey + 1).res,
                items |-> scan_within(Begin(bm, 0), btree.meta_page_id, MaxKey + 1).items],
     keys |-> [k \in DOMAIN inserted |-> first_next(Begin(bm, 0), Key(k))]]

\* C35 (an insert that fails with NoFreeBuffer is a no-op on the tree): over a
\* storage that does not fail and with the frames held by the caller fixed,
\* an insert that returns NoFreeBuffer, made in any reachable state for any
\* key and value, leaves every page of the file as it was, allocates no page,
\* leaves the holders of every frame as they were, and search(Start) and
\* search(Key) of every inserted key yield what they yielded before; and the
\* most recent insert that returned NoFreeBuffer made no allocation, so it
\* failed before any split was applied.
NoFreeBufferNoOp ==
    btree # NoTree =>
        /\ \A key \in Keys, value \in Values :
               LET r == insert(Begin(bufmgr, 0), btree.meta_page_id, key, value)
               IN  r.res = "NoFreeBuffer" =>
                       /\ PagesIn(r.bm) = PagesIn(bufmgr)
                       /\ r.bm.disk.next_page_id = bufmgr.disk.next_page_id
                       /\ PinsIn(r.bm) = PinsIn(bufmgr)
                       /\ Seen(r.bm) = Seen(bufmgr)
        /\ (last.op = "insert" /\ last.res = "NoFreeBuffer") =>
               \A i \in DOMAIN History : History[i][1] # "Alloc"

\* an insert into a two-level tree returned NoFreeBuffer because of the frame
\* the caller holds: without that holder it returns Ok; the tree is seen whole
NoFreeBufferNoOpWitness ==
    /\ btree # NoTree
    /\ last.op = "insert"
    /\ last.res = "NoFreeBuffer"
    /\ NumPinned(bufmgr) = 1
    /\ Height = 2
    /\ insert(Begin([bufmgr EXCEPT !.pool.buffers =
                         [b \in BufferIds(bufmgr) |-> [Buffers[b] EXCEPT !.pins = 0]]], 0),
              btree.meta_page_id, last.key, last.value).res = "Ok"
    /\ Seen(bufmgr).start.res = "Ok"
    /\ Len(Seen(bufmgr).start.items) = Cardinality(DOMAIN inserted)

\* C36 (eviction is invisible to the B+tree): after any sequence of create,
\* insert and search made both over a pool that evicts but does not run out
\* of frames and over an InfinityBuffer, every call returned the same outcome
\* and every search the same pairs on both; the pages of the two are the
\* same; and a frame of the pool that is not dirty holds what the file has
\* of its page, so no page that create or insert wrote was released without
\* is_dirty.
EvictionInvisible ==
    /\ last.op \in {"create", "insert", "search"} =>
           /\ last.res = infinity.res
           /\ last.res # "NoFreeBuffer"
           /\ last.op = "search" => last.items = infinity.items
    /\ btree # NoTree =>
           /\ Allocated(bufmgr) = Allocated(infinity.bm)
           /\ \A p \in Allocated(bufmgr) : PageNow(p) = PageIn(infinity.bm, p)
    /\ \A p \in Mapped :
           ~Buffers[bufmgr.page_table[p]].is_dirty =>
               /\ p < Len(bufmgr.disk.heap_file)
               /\ bufmgr.disk.heap_file[p + 1] = Buffers[bufmgr.page_table[p]].page

\* a search from the start over both returned the five pairs, and over the
\* pool it reloaded pages that had been evicted and wrote back a dirty one
EvictionInvisibleWitness ==
    /\ last.op = "search"
    /\ last.res = "Ok"
    /\ last.mode = Start
    /\ Len(infinity.items) = MaxKey
    /\ \E i \in DOMAIN History : History[i][1] = "Write"
    /\ \E i \in DOMAIN History : History[i][1] = "Read"
    /\ Cardinality(Allocated(infinity.bm)) > size(bufmgr)
    /\ Height = 3

\* the pairs of the tree of meta_page_id in manager bm, by search(Start)
PairsOf(bm, meta_page_id) == scan_within(Begin(bm, 0), meta_page_id, MaxKey + 2).items

\* the record stored as pair p of the primary tree
RecordOf(p) == decode_into(p.key, <<>>) \o decode_into(p.value, <<>>)

\* C37 (Table::insert is all-or-nothing on error): in every reachable state
\* of a created table, a Table::insert of any record that returns an error
\* leaves the pairs of the primary tree and of every unique index as they
\* were, and every row of the primary tree has its (skey -> pkey) entry in
\* every unique index.
TableInsertAtomic ==
    last.op \in {"create", "insert"} =>
        /\ \A record \in TableRecords :
               LET r == Table_insert(Begin(bufmgr, 0), table, record)
               IN  r.res # "Ok" =>
                       /\ PairsOf(r.bm, table.meta_page_id)
                              = PairsOf(bufmgr, table.meta_page_id)
                       /\ \A i \in DOMAIN table.unique_indices :
                              PairsOf(r.bm, table.unique_indices[i].meta_page_id)
                                  = PairsOf(bufmgr, table.unique_indices[i].meta_page_id)
        /\ LET rows == PairsOf(bufmgr, table.meta_page_id)
           IN  \A n \in DOMAIN rows, i \in DOMAIN table.unique_indices :
                   \E e \in DOMAIN PairsOf(bufmgr, table.unique_indices[i].meta_page_id) :
                       PairsOf(bufmgr, table.unique_indices[i].meta_page_id)[e] =
                           [key |-> tuple_encode(
                                        skey_of(table.unique_indices[i], RecordOf(rows[n])),
                                        <<>>),
                            value |-> rows[n].key]

\* C38 (no pin leak): in every reachable state, with any frame the caller
\* holds and with the storage failing at any call or not at all, a
\* BTree::create and a BTree::insert of any key and value leave the holders
\* of every frame as they were whatever they return; a BTree::search that
\* returns Ok adds one holder, that of the leaf of its iterator, which a
\* next() hands over to the following leaf and the drop of the iterator
\* takes away; a search that returns an error adds none.
NoPinLeak ==
    /\ \A fail \in 0 .. MaxFailAt :
           PinsIn(create(Begin(bufmgr, fail)).bm) = PinsIn(bufmgr)
    /\ btree # NoTree =>
           /\ \A key \in Keys, value \in Values, fail \in 0 .. MaxFailAt :
                  PinsIn(insert(Begin(bufmgr, fail), btree.meta_page_id, key, value).bm)
                      = PinsIn(bufmgr)
           /\ \A search_option \in SearchModes, fail \in 0 .. MaxFailAt :
                  LET s == search(Begin(bufmgr, fail), btree.meta_page_id, search_option)
                      n == next(s.bm, s.iter)
                  IN  IF s.res # "Ok" THEN PinsIn(s.bm) = PinsIn(bufmgr)
                      ELSE /\ PinsIn(s.bm) =
                                  [PinsIn(bufmgr) EXCEPT ![s.iter.buffer] = @ + 1]
                           /\ PinsIn(release(s.bm, s.iter.buffer)) = PinsIn(bufmgr)
                           /\ PinsIn(release(n.bm, n.iter.buffer)) = PinsIn(bufmgr)

\* the caller holds a frame of a two-level tree, the insert just made returned
\* NoFreeBuffer, and from here an insert returns DuplicateKey, an insert
\* fails on the storage and a search returns an iterator
NoPinLeakWitness ==
    /\ btree # NoTree
    /\ last.op = "insert"
    /\ last.res = "NoFreeBuffer"
    /\ NumPinned(bufmgr) = 1
    /\ Height = 2
    /\ \E key \in Keys :
           insert(Begin(bufmgr, 0), btree.meta_page_id, key, "hello").res = "DuplicateKey"
    /\ \E key \in Keys, fail \in 1 .. MaxFailAt :
           insert(Begin(bufmgr, fail), btree.meta_page_id, key, "hello").res = "Io"
    /\ search(Begin(bufmgr, 0), btree.meta_page_id, Start).res = "Ok"

\* the caller fetches the pages of the sequence pages, all of them in the pool,
\* and keeps their buffers
RECURSIVE hold_all(_, _)
hold_all(bm, pages) ==
    IF pages = <<>> THEN bm
    ELSE hold_all(fetch_page(bm, Head(pages)).bm, Tail(pages))

\* the storage reads of the most recent call on manager bm
ReadsOf(bm) ==
    Cardinality({i \in DOMAIN bm.disk.history : bm.disk.history[i][1] = "Read"})

\* C39 (search pins one page at a time): in every reachable state of a tree
\* of any height, with the caller holding any set of the pages that are in
\* the pool, a BTree::search in any mode never has more than one frame
\* pinned beyond those the caller holds, and it returns Ok whenever at
\* least one frame is unpinned.
SearchOnePin ==
    btree # NoTree =>
        \A S \in SUBSET Mapped :
            LET held == Begin(hold_all(bufmgr, Ascending(S)), 0)
            IN  \A search_option \in SearchModes :
                    LET s == search(held, btree.meta_page_id, search_option)
                    IN  /\ s.bm.peak <= NumPinned(held) + 1
                        /\ ~AllPinned(held) => s.res = "Ok"
                        /\ s.res \in {"Ok", "NoFreeBuffer"}

\* in a three-level tree, with every frame but one held by the caller, a
\* search for a key returns Ok after reading two pages into the one frame
SearchOnePinWitness ==
    /\ btree # NoTree
    /\ Height = 3
    /\ last.op = "insert"
    /\ \E S \in SUBSET Mapped, key \in Keys :
           LET held == Begin(hold_all(bufmgr, Ascending(S)), 0)
               s == search(held, btree.meta_page_id, Key(key))
           IN  /\ NumPinned(held) = size(bufmgr) - 1
               /\ s.res = "Ok"
               /\ ReadsOf(s.bm) >= 2

\* C40 (no page id reuse after flush and reopen): over a storage that does
\* not fail, after a flush that returned Ok, alone or before a reopen, every
\* id that allocate_page has returned is the id of a page that was written
\* to the heap file, the file holds what was last given to each page, its
\* length is next_page_id * PAGE_SIZE, and a DiskManager made on it starts
\* at the id the old one would have given next; and the DiskManager that a
\* reopen makes starts there.
NoIdReuse ==
    /\ [](last.op \in {"flush", "reopen"} /\ last.res = "Ok" =>
            /\ Allocated(bufmgr) \subseteq stored
            /\ heap_file_size(bufmgr.disk.heap_file) = bufmgr.disk.next_page_id * PAGE_SIZE
            /\ \A p \in Allocated(bufmgr) : bufmgr.disk.heap_file[p + 1] = written[p]
            /\ NewManager(1, bufmgr.disk.heap_file).disk.next_page_id
                   = bufmgr.disk.next_page_id)
    /\ [][last'.op = "reopen" =>
              /\ last'.res = "Ok"
              /\ bufmgr'.disk.next_page_id = bufmgr.disk.next_page_id
              /\ bufmgr'.disk.next_page_id \notin Allocated(bufmgr)]_vars

\* the file was flushed and reopened with MaxPages page ids given out, one
\* of them the id of a page that was overwritten
NoIdReuseWitness ==
    /\ last.op = "reopen"
    /\ last.res = "Ok"
    /\ bufmgr.disk.next_page_id = MaxPages
    /\ Len(bufmgr.disk.heap_file) = MaxPages
    /\ stored = 0 .. MaxPages - 1
    /\ \E p \in stored : bufmgr.disk.heap_file[p + 1] # ZeroPage
====
